---- MODULE Spec2Model ----
(***************************************************************************)
(* A model of ryanslade/tftp: the wire codec (common/common.go), the       *)
(* listener and the two transfer handlers of the server (server), the      *)
(* lock-step loops ReadFileLoop / WriteFileLoop (common/common.go) and the *)
(* client's handlePut / handleGet (client/client.go).  Packets are byte    *)
(* sequences, sockets are queues of datagrams, files are byte sequences.   *)
(***************************************************************************)
EXTENDS Integers, Sequences, FiniteSets, TLC

\* ------------------------------------------------------------------ bounds
\* The served / uploaded file has up to MaxBlocks full blocks plus a tail.
MaxBlocks == 2
\* Datagrams a misbehaving peer may inject into a transfer's socket.
MaxInject == 1
\* longest buffer handed to a decoder; longest filename and mode encoded
MaxLen == 5
MaxName == 2

\* --------------------------------------------------------------- constants
BlockSize == 512
MaxPacketSize == BlockSize * 2
AckSize == 4
\* bufio.NewReader / bufio.NewWriter use the default buffer size
BufioSize == 4096
Wrap16 == 65536

OpRRQ == 1
OpWRQ == 2
OpDATA == 3
OpACK == 4
OpERROR == 5

\* ------------------------------------------------------------ byte helpers
Min(a, b) == IF a < b THEN a ELSE b

Zeros(n) == [i \in 1..n |-> 0]

\* Go's b[lo:hi]
Slice(b, lo, hi) == SubSeq(b, lo + 1, hi)

\* mutant of PutUint16: the high byte is lost
PutUint16Low(v) == <<0, v % 256>>

\* binary.BigEndian.PutUint16 / Uint16
PutUint16(v) == <<(v \div 256) % 256, v % 256>>

Uint16(b) == b[1] * 256 + b[2]

\* copy(dst, src): the first min(len) bytes of dst are overwritten
Copy(dst, src) ==
    LET n == Min(Len(dst), Len(src))
    IN  SubSeq(src, 1, n) \o SubSeq(dst, n + 1, Len(dst))

\* index (1-based) of the first 0 byte of b at or after position i, 0 if none
RECURSIVE IndexNul(_, _)
IndexNul(b, i) ==
    IF i > Len(b) THEN 0
    ELSE IF b[i] = 0 THEN i
    ELSE IndexNul(b, i + 1)

\* strings.ToLower on ASCII bytes
ToLower(s) == [i \in 1..Len(s) |-> IF s[i] >= 65 /\ s[i] <= 90 THEN s[i] + 32 ELSE s[i]]

\* string literals of the source, as bytes
StrNetascii == <<110, 101, 116, 97, 115, 99, 105, 105>>
StrOctet == <<111, 99, 116, 101, 116>>
StrMail == <<109, 97, 105, 108>>
MsgFileNotFound == <<70, 105, 108, 101, 32, 110, 111, 116, 32, 102, 111, 117, 110, 100>>
MsgUnknownTid == <<85, 110, 107, 110, 111, 119, 110, 32, 116, 114, 97, 110, 115, 102, 101, 114, 32, 105, 100>>
\* err.Error() of a failed os.Open / os.Create that is not "not exist"
MsgOsError == <<100, 101, 110, 105, 101, 100>>

\* -------------------------------------------------------------- wire codec
createDataPacket(blockNumber, data) ==
    PutUint16(OpDATA) \o PutUint16(blockNumber) \o data

CreateAckPacket(tid) == PutUint16(OpACK) \o PutUint16(tid)

\* mutant of CreateErrorPacket: the message is not terminated
CreateErrorPacketOpen(code, message) ==
    PutUint16(OpERROR) \o PutUint16(code) \o message

CreateErrorPacket(code, message) ==
    PutUint16(OpERROR) \o PutUint16(code) \o message \o <<0>>

GetOpCode(packet) ==
    IF Len(packet) < 2 THEN [op |-> OpERROR, err |-> TRUE]
    ELSE IF Uint16(packet) > 5 THEN [op |-> OpERROR, err |-> TRUE]
    ELSE [op |-> Uint16(packet), err |-> FALSE]

\* panic: binary.BigEndian.Uint16(packet[2:]) on fewer than 4 bytes
ParseAckPacket(packet) ==
    LET o == GetOpCode(packet)
    IN  IF o.err THEN [tid |-> 0, err |-> TRUE, panic |-> FALSE]
        ELSE IF o.op # OpACK THEN [tid |-> 0, err |-> TRUE, panic |-> FALSE]
        ELSE IF Len(packet) < 4 THEN [tid |-> 0, err |-> TRUE, panic |-> TRUE]
        ELSE [tid |-> Uint16(Slice(packet, 2, 4)), err |-> FALSE, panic |-> FALSE]

NoRequest == [op |-> 0, filename |-> <<>>, mode |-> <<>>, err |-> TRUE]

ParseRequestPacket(packet) ==
    LET o == GetOpCode(packet)
        z1 == IndexNul(packet, 3)
        z2 == IndexNul(packet, z1 + 1)
    IN  IF o.err THEN NoRequest
        ELSE IF z1 = 0 THEN NoRequest
        ELSE IF z2 = 0 THEN NoRequest
        ELSE [op |-> o.op,
              filename |-> SubSeq(packet, 3, z1 - 1),
              mode |-> SubSeq(packet, z1 + 1, z2 - 1),
              err |-> FALSE]

\* mutant of ToBytes: no room for the terminator of the mode
ToBytesShort(op, filename, mode) == PutUint16(op) \o filename \o <<0>> \o mode

\* RequestPacket.ToBytes
ToBytes(op, filename, mode) ==
    PutUint16(op) \o filename \o <<0>> \o mode \o <<0>>

\* mutant of SendError: the code of the unknown-transfer error on every error
SendErrorUnknownTid(code, message) == CreateErrorPacket(5, message)

\* SendError builds the packet it writes to the connection
SendError(code, message) == CreateErrorPacket(0, message)

\* mutant of acceptedMode: the mode is compared as it is spelled
acceptedModeExact(mode) == mode \in {StrNetascii, StrOctet, StrMail}

\* mutant of acceptedMode: only octet transfers are served
acceptedModeOctet(mode) == ToLower(mode) = StrOctet

acceptedMode(mode) == ToLower(mode) \in {StrNetascii, StrOctet, StrMail}

\* mutant of handlerMapping: the two handlers registered the other way round
handlerMappingSwapped == (OpRRQ :> "handleWriteRequest") @@ (OpWRQ :> "handleReadRequest")

handlerMapping == (OpRRQ :> "handleReadRequest") @@ (OpWRQ :> "handleWriteRequest")

\* ------------------------------------------------- bufio over an os.File
\* bufio.Reader.Read(p) with len(p) = size < BufioSize: an empty buffer is
\* refilled with one os.File.Read, then up to size bytes are handed out.
brRead(content, br, size) ==
    LET fill  == Len(br.rbuf) = 0
        chunk == Slice(content, br.fpos, Min(br.fpos + BufioSize, Len(content)))
        buf   == IF fill THEN chunk ELSE br.rbuf
        n     == Min(size, Len(buf))
    IN  [eof  |-> Len(buf) = 0,
         data |-> Slice(buf, 0, n),
         br   |-> [rbuf |-> Slice(buf, n, Len(buf)),
                   fpos |-> IF fill THEN br.fpos + Len(chunk) ELSE br.fpos]]

\* os.File.Write at the handle's offset
FileWriteAt(content, off, data) ==
    LET pad == IF off > Len(content) THEN Zeros(off - Len(content)) ELSE <<>>
    IN  SubSeq(content, 1, off) \o pad \o data
            \o SubSeq(content, off + Len(data) + 1, Len(content))

\* bufio.Writer.Flush
bwFlush(content, bw) ==
    [content |-> FileWriteAt(content, bw.wpos, bw.wbuf),
     bw |-> [wbuf |-> <<>>, wpos |-> bw.wpos + Len(bw.wbuf)]]

\* mutant of bwWrite: the bytes are dropped
bwWriteNothing(content, bw, p) == [content |-> content, bw |-> bw]

\* bufio.Writer.Write(p), len(p) < BufioSize
bwWrite(content, bw, p) ==
    LET avail == BufioSize - Len(bw.wbuf)
    IN  IF Len(p) > avail
        THEN LET f == bwFlush(content, [bw EXCEPT !.wbuf = @ \o Slice(p, 0, avail)])
             IN  [content |-> f.content,
                  bw |-> [f.bw EXCEPT !.wbuf = Slice(p, avail, Len(p))]]
        ELSE [content |-> content, bw |-> [bw EXCEPT !.wbuf = @ \o p]]


\* ------------------------------------------------------- the lock-step loops
\* mutants of AckMatches: any ACK is taken; an ACK of an earlier block is taken
AckMatchesAny(ackTid, tid) == TRUE

AckMatchesStale(ackTid, tid) == ackTid <= tid

\* ReadFileLoop's comparison of the acknowledged block with the one sent
AckMatches(ackTid, tid) == ackTid = tid

\* mutant of TidMatches: a DATA packet of any block number is taken
TidMatchesAny(packetTID, tid) == TRUE

\* WriteFileLoop's comparison of the received block number with the expected
TidMatches(packetTID, tid) == packetTID = tid

\* mutant of IsLastBlock: a full block ends the transfer too
IsLastBlockFull(n) == n <= 4 + BlockSize

\* WriteFileLoop's test for the last block, n the length of the datagram
IsLastBlock(n) == n < 4 + BlockSize

\* mutant of NextTid: the counter skips a block
NextTidSkip(tid) == (tid + 2) % Wrap16

\* mutant of NextTid: the counter stops at its largest value
NextTidSaturate(tid) == Min(tid + 1, Wrap16 - 1)

\* mutant of NextTid: the counter does not move
NextTidStay(tid) == tid

\* tid++ on a uint16
NextTid(tid) == (tid + 1) % Wrap16

\* the loop variables of ReadFileLoop and WriteFileLoop (buffers not yet made)
NoLoop ==
    [tid |-> 0, bytesRead |-> 0, br |-> [rbuf |-> <<>>, fpos |-> 0], ackBuf |-> <<>>,
     packet |-> <<>>, bw |-> [wbuf |-> <<>>, wpos |-> 0]]

\* ReadFileLoop, entry: var tid uint16; buffer, ackBuf := make(...)
ReadFileLoopEnter == [NoLoop EXCEPT !.ackBuf = Zeros(AckSize)]

\* ReadFileLoop from the top of the loop to the blocking ReadFrom:
\* tid++, r.Read (EOF: break), createDataPacket, WriteTo
ReadFileLoopSend(content, st) ==
    LET tid == NextTid(st.tid)
        rd  == brRead(content, st.br, BlockSize)
    IN  IF rd.eof
        THEN [st |-> [st EXCEPT !.tid = tid, !.br = rd.br], out |-> <<>>, ret |-> "nil"]
        ELSE [st |-> [st EXCEPT !.tid = tid, !.br = rd.br,
                                !.bytesRead = @ + Len(rd.data)],
              out |-> <<createDataPacket(tid, rd.data)>>,
              ret |-> "blocked"]

\* ReadFileLoop from the return of ReadFrom(ackBuf) with datagram `data` to the
\* next blocking ReadFrom, or to its return
ReadFileLoopRecv(content, st, data) ==
    LET i      == Min(Len(st.ackBuf), Len(data))
        ackBuf == Copy(st.ackBuf, data)
        ack    == ParseAckPacket(ackBuf)
        st1    == [st EXCEPT !.ackBuf = ackBuf]
    IN  IF i # 4 THEN [st |-> st1, out |-> <<>>, ret |-> "ack length"]
        ELSE IF ack.err THEN [st |-> st1, out |-> <<>>, ret |-> "ack parse"]
        ELSE IF ~AckMatches(ack.tid, st.tid)
             THEN [st |-> st1, out |-> <<>>, ret |-> "ack mismatch"]
        ELSE ReadFileLoopSend(content, st1)

\* WriteFileLoop, entry: tid := 0; packet := make(MaxPacketSize); tid++
WriteFileLoopEnter == [NoLoop EXCEPT !.tid = NextTid(0), !.packet = Zeros(MaxPacketSize)]

\* mutant of WriteFileLoopRecv: the opcode of the packet is not looked at
WriteFileLoopRecvNoOpcode(content, st, data) ==
    LET n         == Min(Len(st.packet), Len(data))
        packet    == Copy(st.packet, data)
        packetTID == Uint16(Slice(packet, 2, 4))
        st1       == [st EXCEPT !.packet = packet]
        w         == bwWrite(content, st.bw, Slice(packet, 4, n))
    IN  IF ~TidMatches(packetTID, st.tid)
        THEN [st |-> st1, content |-> content,
              out |-> <<SendError(5, MsgUnknownTid)>>, ret |-> "tid"]
        ELSE IF n < 4
        THEN [st |-> st1, content |-> content, out |-> <<>>, ret |-> "panic"]
        ELSE IF IsLastBlock(n)
        THEN [st |-> [st1 EXCEPT !.bw = w.bw], content |-> w.content,
              out |-> <<CreateAckPacket(st.tid)>>, ret |-> "nil"]
        ELSE [st |-> [st1 EXCEPT !.bw = w.bw, !.tid = NextTid(@)],
              content |-> w.content,
              out |-> <<CreateAckPacket(st.tid)>>, ret |-> "blocked"]

\* WriteFileLoop from the return of ReadFrom(packet) with datagram `data` to the
\* next blocking ReadFrom, or to its return.  content: the sink file's bytes.
WriteFileLoopRecv(content, st, data) ==
    LET n         == Min(Len(st.packet), Len(data))
        packet    == Copy(st.packet, data)
        o         == GetOpCode(packet)
        packetTID == Uint16(Slice(packet, 2, 4))
        st1       == [st EXCEPT !.packet = packet]
        w         == bwWrite(content, st.bw, Slice(packet, 4, n))
    IN  IF o.err
        THEN [st |-> st1, content |-> content, out |-> <<>>, ret |-> "opcode"]
        ELSE IF o.op # OpDATA
        THEN [st |-> st1, content |-> content, out |-> <<>>, ret |-> "not data"]
        ELSE IF ~TidMatches(packetTID, st.tid)
        THEN [st |-> st1, content |-> content,
              out |-> <<SendError(5, MsgUnknownTid)>>, ret |-> "tid"]
        ELSE IF n < 4  \* packet[4:n] panics: slice bounds out of range
        THEN [st |-> st1, content |-> content, out |-> <<>>, ret |-> "panic"]
        ELSE IF IsLastBlock(n)
        THEN [st |-> [st1 EXCEPT !.bw = w.bw], content |-> w.content,
              out |-> <<CreateAckPacket(st.tid)>>, ret |-> "nil"]
        ELSE [st |-> [st1 EXCEPT !.bw = w.bw, !.tid = NextTid(@)],
              content |-> w.content,
              out |-> <<CreateAckPacket(st.tid)>>, ret |-> "blocked"]

\* ------------------------------------------------------------------ files
FileNameF == <<102>>
FileNameG == <<103>>
FileNameD == <<100>>

\* the bytes of a file of length n
FileData(n) == [i \in 1..n |-> (i * 7 + (i \div BlockSize)) % 256]

\* the lengths of the files served and uploaded
FileLens == {k * BlockSize + r : k \in 0..MaxBlocks, r \in {0, 1, BlockSize - 1}}

Absent == [state |-> "absent", data |-> <<>>]

FsLookup(fs, name) == IF name \in DOMAIN fs THEN fs[name] ELSE Absent

\* os.Create: truncate or create
FsCreate(fs, name) == (name :> [state |-> "file", data |-> <<>>]) @@ fs

FsStore(fs, name, content) == (name :> [state |-> "file", data |-> content]) @@ fs


\* --------------------------------------------------------------- the state
Rendezvous == <<"rv", 0>>

\* mutant of SrvSock: the handlers use the listener's socket
SrvSockRendezvous(t) == Rendezvous

\* the socket handler t binds: net.ListenUDP on port 0
SrvSock(t) == <<"srv", t>>

PeerAddr(p) == <<"peer", p>>
ClientSock == <<"cli", 0>>
NoAddr == <<"none", 0>>

\* goroutines launched by the listener; remote peers; an address that never
\* sent a request
Slots == {1, 2}
Peers == {1, 2}
Stranger == PeerAddr(0)

Addrs == {Rendezvous, ClientSock} \cup {SrvSock(t) : t \in Slots}
            \cup {PeerAddr(p) : p \in Peers}

VARIABLES
    inbox,   \* inbox[a]: the datagrams queued at socket a, each [from, data]
    tr,      \* tr[t]: the transfer handler goroutine t of the server
    sfs,     \* the server's files: name -> [state, data]
    ev,      \* ev[a]: what socket a received (rx) and sent (tx), in order
    todo,    \* the peers that have not sent their request yet
    upload,  \* the bytes an uploading peer sends
    ninj,    \* datagrams injected so far
    cl,      \* the client process (client/client.go)
    cfs,     \* the client's files
    dec      \* a call of the wire codec on its own: function, input, result

vars == <<inbox, tr, sfs, ev, todo, upload, ninj, cl, cfs, dec>>

\* no call of the codec on its own
NoCall == [fn |-> "", in |-> <<>>, out |-> <<>>]

\* the client before main runs
ClientOff ==
    [pc |-> "off", mode |-> "", filename |-> <<>>, remote |-> NoAddr,
     conn |-> "none", fh |-> "none", ret |-> "", loop |-> "", st |-> NoLoop]

IdleTransfer ==
    [pc |-> "idle", op |-> 0, remote |-> NoAddr, filename |-> <<>>,
     conn |-> "none", fh |-> "none", synced |-> FALSE, ret |-> "", st |-> NoLoop]

SockOpen(a) ==
    \/ a = Rendezvous
    \/ \E p \in Peers : a = PeerAddr(p)
    \/ \E t \in Slots : a = SrvSock(t) /\ tr[t].conn = "open"
    \/ a = ClientSock /\ cl.conn = "open"

Datagrams(from, pkts) == [i \in 1..Len(pkts) |-> [from |-> from, data |-> pkts[i]]]

Events(kind, peer, pkts) ==
    [i \in 1..Len(pkts) |-> [k |-> kind, peer |-> peer, data |-> pkts[i]]]

\* conn.WriteTo of each packet of pkts; a datagram for a closed port is lost
Deliver(inb, from, to, pkts) ==
    IF SockOpen(to) THEN [inb EXCEPT ![to] = @ \o Datagrams(from, pkts)] ELSE inb

\* The effect of one step of handler t on its record, its socket and the log:
\* consumed tells whether the step began with the return of ReadFrom.
Step(t, consumed, r2, out) ==
    LET me   == SrvSock(t)
        dg   == Head(inbox[me])
        rest == IF r2.conn = "closed" THEN <<>>
                ELSE IF consumed THEN Tail(inbox[me]) ELSE inbox[me]
        rx   == IF consumed THEN Events("rx", dg.from, <<dg.data>>) ELSE <<>>
    IN  /\ tr' = [tr EXCEPT ![t] = r2]
        /\ inbox' = Deliver([inbox EXCEPT ![me] = rest], me, r2.remote, out)
        /\ ev' = [ev EXCEPT ![me] = @ \o rx \o Events("tx", r2.remote, out)]

\* ------------------------------------------------------------ the listener
\* The unit `go handler.serve(...)` leaves behind
Spawned(op, remoteAddr, filename) ==
    [IdleTransfer EXCEPT !.pc = "spawned", !.op = op, !.remote = remoteAddr,
                         !.filename = filename]

\* mutant of TooBig: only a datagram longer than the buffer is too big
TooBigOver(n) == n > MaxPacketSize

\* handleHandshake's test of the number of bytes read into its buffer
TooBig(n) == n = MaxPacketSize

\* handleHandshake's decision on the n bytes read into the buffer packet
Handshake(n, packet) ==
    LET req == ParseRequestPacket(packet)
    IN  IF TooBig(n) THEN [ok |-> FALSE, err |-> "too big", req |-> NoRequest]
        ELSE IF req.err THEN [ok |-> FALSE, err |-> "parse", req |-> NoRequest]
        ELSE IF ~acceptedMode(req.mode) THEN [ok |-> FALSE, err |-> "mode", req |-> req]
        ELSE IF req.op \notin DOMAIN handlerMapping
        THEN [ok |-> FALSE, err |-> "no handler", req |-> req]
        ELSE [ok |-> TRUE, err |-> "", req |-> req]

\* mutant of FreeSlot: the listener runs the handler itself and reads the next
\* request only once the handler has returned
FreeSlotInline(t) ==
    /\ tr[t].pc = "idle"
    /\ \A u \in Slots : u < t => tr[u].pc = "done"

\* mutant of FreeSlot: every request is handed to the one existing transfer
FreeSlotFirst(t) == t = 1

\* `go`: the handler runs in a goroutine of its own, in the next unused slot
FreeSlot(t) == tr[t].pc = "idle" /\ \A u \in Slots : u < t => tr[u].pc # "idle"

\* what handleHandshake returned for the datagram logged just before: its
\* error ("" for nil) and the goroutine it launched (0 for none)
Returned(remoteAddr, err, t) ==
    <<[k |-> "ret", peer |-> remoteAddr, data |-> <<>>, err |-> err, go |-> t]>>

\* one pass of listenAndServe's loop: handleHandshake on the rendezvous socket
handleHandshake ==
    /\ inbox[Rendezvous] # <<>>
    /\ \E dg \in {Head(inbox[Rendezvous])} :
       \E packet \in {Copy(Zeros(MaxPacketSize), dg.data)} :
       \E h \in {Handshake(Min(MaxPacketSize, Len(dg.data)), packet)} :
       \E t \in Slots \cup {0} :
           /\ IF h.ok
              THEN /\ t \in Slots
                   /\ FreeSlot(t)
                   /\ tr' = [tr EXCEPT ![t] = Spawned(h.req.op, dg.from, h.req.filename)]
              ELSE /\ t = 0
                   /\ tr' = tr
           /\ inbox' = [inbox EXCEPT ![Rendezvous] = Tail(@)]
           /\ ev' = [ev EXCEPT ![Rendezvous] = @ \o Events("rx", dg.from, <<dg.data>>)
                                                 \o Returned(dg.from, h.err, t)]
    /\ UNCHANGED <<sfs, todo, upload, ninj, cl, cfs, dec>>

\* handleHandshake of server/server.go: a missing handler is logged and the nil
\* handler is called all the same, which panics
HandshakeServerGo(n, packet) ==
    LET h == Handshake(n, packet)
    IN  IF h.err = "no handler" THEN [h EXCEPT !.err = "panic"] ELSE h

\* the process has died of a panic in the listener
Crashed ==
    \E j \in 1..Len(ev[Rendezvous]) :
        ev[Rendezvous][j].k = "ret" /\ ev[Rendezvous][j].err = "panic"

\* one pass of listenAndServe's loop in server/server.go
handleHandshakeServerGo ==
    /\ ~Crashed
    /\ inbox[Rendezvous] # <<>>
    /\ \E dg \in {Head(inbox[Rendezvous])} :
       \E packet \in {Copy(Zeros(MaxPacketSize), dg.data)} :
       \E h \in {HandshakeServerGo(Min(MaxPacketSize, Len(dg.data)), packet)} :
       \E t \in Slots \cup {0} :
           /\ IF h.ok
              THEN /\ t \in Slots
                   /\ FreeSlot(t)
                   /\ tr' = [tr EXCEPT ![t] = Spawned(h.req.op, dg.from, h.req.filename)]
              ELSE /\ t = 0
                   /\ tr' = tr
           /\ inbox' = [inbox EXCEPT ![Rendezvous] = Tail(@)]
           /\ ev' = [ev EXCEPT ![Rendezvous] = @ \o Events("rx", dg.from, <<dg.data>>)
                                                 \o Returned(dg.from, h.err, t)]
    /\ UNCHANGED <<sfs, todo, upload, ninj, cl, cfs, dec>>

\* ---------------------------------------------------- the transfer handlers
\* handleReadRequest from its start to the first blocking ReadFrom or its return
handleReadRequest(t) ==
    /\ tr[t].pc = "spawned"
    /\ handlerMapping[tr[t].op] = "handleReadRequest"
    /\ \E r \in {[tr[t] EXCEPT !.conn = "open"]} :
       \E f \in {FsLookup(sfs, r.filename)} :
       \E res \in {ReadFileLoopSend(f.data, ReadFileLoopEnter)} :
           IF f.state = "absent"
           THEN Step(t, FALSE, [r EXCEPT !.pc = "done", !.conn = "closed", !.ret = "not found"],
                     <<SendError(1, MsgFileNotFound)>>)
           ELSE IF f.state # "file"
           THEN Step(t, FALSE, [r EXCEPT !.pc = "done", !.conn = "closed", !.ret = "open"],
                     <<SendError(0, MsgOsError)>>)
           ELSE IF res.ret = "blocked"
           THEN Step(t, FALSE, [r EXCEPT !.pc = "waitack", !.fh = "open", !.st = res.st],
                     res.out)
           ELSE Step(t, FALSE, [r EXCEPT !.pc = "done", !.conn = "closed", !.fh = "closed",
                                         !.st = res.st, !.ret = res.ret], res.out)
    /\ UNCHANGED <<sfs, todo, upload, ninj, cl, cfs, dec>>

\* ReadFileLoop in handler t: ReadFrom(ackBuf) returns, to the next ReadFrom or
\* to the return of handleReadRequest (deferred f.Close, conn.Close)
ReadFileLoop(t) ==
    /\ tr[t].pc = "waitack"
    /\ inbox[SrvSock(t)] # <<>>
    /\ \E r \in {tr[t]} :
       \E res \in {ReadFileLoopRecv(FsLookup(sfs, r.filename).data, r.st,
                                     Head(inbox[SrvSock(t)]).data)} :
           IF res.ret = "blocked"
           THEN Step(t, TRUE, [r EXCEPT !.st = res.st], res.out)
           ELSE Step(t, TRUE, [r EXCEPT !.pc = "done", !.conn = "closed", !.fh = "closed",
                                        !.st = res.st, !.ret = res.ret], res.out)
    /\ UNCHANGED <<sfs, todo, upload, ninj, cl, cfs, dec>>

\* mutant of WriteReturn: the loop goes on waiting instead of returning
WriteReturnGoesOn(r, content, res) ==
    [r |-> [r EXCEPT !.st = res.st], content |-> content]

\* the deferred calls of handleWriteRequest after the sink was created:
\* bw.Flush, fileCleanup (Sync, Close), conn.Close
WriteReturn(r, content, res) ==
    LET f == bwFlush(content, res.st.bw)
    IN  [r |-> [r EXCEPT !.pc = "done", !.conn = "closed", !.fh = "closed",
                         !.synced = TRUE, !.st = [res.st EXCEPT !.bw = f.bw],
                         !.ret = res.ret],
         content |-> f.content]

\* handleWriteRequest from its start to the first blocking ReadFrom or its return
handleWriteRequest(t) ==
    /\ tr[t].pc = "spawned"
    /\ handlerMapping[tr[t].op] = "handleWriteRequest"
    /\ \E r \in {[tr[t] EXCEPT !.conn = "open"]} :
       \E f \in {FsLookup(sfs, r.filename)} :
           IF f.state = "denied"
           THEN /\ Step(t, FALSE, [r EXCEPT !.pc = "done", !.conn = "closed", !.ret = "create"],
                        <<SendError(0, MsgOsError)>>)
                /\ sfs' = sfs
           ELSE /\ Step(t, FALSE, [r EXCEPT !.pc = "waitdata", !.fh = "open",
                                            !.st = WriteFileLoopEnter],
                        <<CreateAckPacket(0)>>)
                /\ sfs' = FsCreate(sfs, r.filename)
    /\ UNCHANGED <<todo, upload, ninj, cl, cfs, dec>>

\* WriteFileLoop in handler t: ReadFrom(packet) returns, to the next ReadFrom or
\* to the return of handleWriteRequest
WriteFileLoop(t) ==
    /\ tr[t].pc = "waitdata"
    /\ inbox[SrvSock(t)] # <<>>
    /\ \E r \in {tr[t]} :
       \E res \in {WriteFileLoopRecv(FsLookup(sfs, r.filename).data, r.st,
                                      Head(inbox[SrvSock(t)]).data)} :
       \E fin \in {WriteReturn(r, res.content, res)} :
           IF res.ret = "blocked"
           THEN /\ Step(t, TRUE, [r EXCEPT !.st = res.st], res.out)
                /\ sfs' = FsStore(sfs, r.filename, res.content)
           ELSE /\ Step(t, TRUE, fin.r, res.out)
                /\ sfs' = FsStore(sfs, r.filename, fin.content)
    /\ UNCHANGED <<todo, upload, ninj, cl, cfs, dec>>


\* --------------------------- the transfer handlers of server/server.go
\* They run the same loops inline and defer the same calls on the file, and
\* never close the socket they bound: conn stays open when they return.
handleReadRequestServerGo(t) ==
    /\ tr[t].pc = "spawned"
    /\ handlerMapping[tr[t].op] = "handleReadRequest"
    /\ \E r \in {[tr[t] EXCEPT !.conn = "open"]} :
       \E f \in {FsLookup(sfs, r.filename)} :
       \E res \in {ReadFileLoopSend(f.data, ReadFileLoopEnter)} :
           IF f.state = "absent"
           THEN Step(t, FALSE, [r EXCEPT !.pc = "done", !.ret = "not found"],
                     <<SendError(1, MsgFileNotFound)>>)
           ELSE IF f.state # "file"
           THEN Step(t, FALSE, [r EXCEPT !.pc = "done", !.ret = "open"],
                     <<SendError(0, MsgOsError)>>)
           ELSE IF res.ret = "blocked"
           THEN Step(t, FALSE, [r EXCEPT !.pc = "waitack", !.fh = "open", !.st = res.st],
                     res.out)
           ELSE Step(t, FALSE, [r EXCEPT !.pc = "done", !.fh = "closed",
                                         !.st = res.st, !.ret = res.ret], res.out)
    /\ UNCHANGED <<sfs, todo, upload, ninj, cl, cfs, dec>>

\* the loop of handleReadRequest in server/server.go: ReadFrom(ackBuf) returns,
\* to the next ReadFrom or to the return (deferred f.Close)
ReadFileLoopServerGo(t) ==
    /\ tr[t].pc = "waitack"
    /\ inbox[SrvSock(t)] # <<>>
    /\ \E r \in {tr[t]} :
       \E res \in {ReadFileLoopRecv(FsLookup(sfs, r.filename).data, r.st,
                                     Head(inbox[SrvSock(t)]).data)} :
           IF res.ret = "blocked"
           THEN Step(t, TRUE, [r EXCEPT !.st = res.st], res.out)
           ELSE Step(t, TRUE, [r EXCEPT !.pc = "done", !.fh = "closed",
                                        !.st = res.st, !.ret = res.ret], res.out)
    /\ UNCHANGED <<sfs, todo, upload, ninj, cl, cfs, dec>>

\* the deferred calls of handleWriteRequest in server/server.go: bw.Flush and
\* fileCleanup (Sync, Close)
WriteReturnServerGo(r, content, res) ==
    LET f == bwFlush(content, res.st.bw)
    IN  [r |-> [r EXCEPT !.pc = "done", !.fh = "closed",
                         !.synced = TRUE, !.st = [res.st EXCEPT !.bw = f.bw],
                         !.ret = res.ret],
         content |-> f.content]

handleWriteRequestServerGo(t) ==
    /\ tr[t].pc = "spawned"
    /\ handlerMapping[tr[t].op] = "handleWriteRequest"
    /\ \E r \in {[tr[t] EXCEPT !.conn = "open"]} :
       \E f \in {FsLookup(sfs, r.filename)} :
           IF f.state = "denied"
           THEN /\ Step(t, FALSE, [r EXCEPT !.pc = "done", !.ret = "create"],
                        <<SendError(0, MsgOsError)>>)
                /\ sfs' = sfs
           ELSE /\ Step(t, FALSE, [r EXCEPT !.pc = "waitdata", !.fh = "open",
                                            !.st = WriteFileLoopEnter],
                        <<CreateAckPacket(0)>>)
                /\ sfs' = FsCreate(sfs, r.filename)
    /\ UNCHANGED <<todo, upload, ninj, cl, cfs, dec>>

\* the loop of handleWriteRequest in server/server.go: ReadFromUDP(packet)
\* returns, to the next ReadFromUDP or to the return
WriteFileLoopServerGo(t) ==
    /\ tr[t].pc = "waitdata"
    /\ inbox[SrvSock(t)] # <<>>
    /\ \E r \in {tr[t]} :
       \E res \in {WriteFileLoopRecv(FsLookup(sfs, r.filename).data, r.st,
                                      Head(inbox[SrvSock(t)]).data)} :
       \E fin \in {WriteReturnServerGo(r, res.content, res)} :
           IF res.ret = "blocked"
           THEN /\ Step(t, TRUE, [r EXCEPT !.st = res.st], res.out)
                /\ sfs' = FsStore(sfs, r.filename, res.content)
           ELSE /\ Step(t, TRUE, fin.r, res.out)
                /\ sfs' = FsStore(sfs, r.filename, fin.content)
    /\ UNCHANGED <<todo, upload, ninj, cl, cfs, dec>>


\* ------------------------------------------- the loops with failing I/O
\* The calls the loops make can fail or fall short: conn.WriteTo and
\* conn.ReadFrom return an error, the read of the source returns fewer bytes
\* than asked for before its end, the flush of a full bufio.Writer fails.
\* `fail` names what happens in the step: "" for nothing, "short", "WriteTo",
\* "ReadFrom", "Write".

\* the bytes a read of the source returns when it falls short
ShortRead == BlockSize \div 2

\* bufio.Reader.Read(p) where the os.File.Read that refills the empty buffer
\* returns at most `most` bytes
brReadN(content, br, size, most) ==
    LET fill  == Len(br.rbuf) = 0
        chunk == Slice(content, br.fpos,
                       Min(br.fpos + Min(BufioSize, most), Len(content)))
        buf   == IF fill THEN chunk ELSE br.rbuf
        n     == Min(size, Len(buf))
    IN  [eof  |-> Len(buf) = 0,
         data |-> Slice(buf, 0, n),
         br   |-> [rbuf |-> Slice(buf, n, Len(buf)),
                   fpos |-> IF fill THEN br.fpos + Len(chunk) ELSE br.fpos]]

\* ReadFileLoop from the top of the loop to the blocking ReadFrom or to its
\* return; lost is the packet whose WriteTo failed
ReadFileLoopSendIO(content, st, fail) ==
    LET tid == NextTid(st.tid)
        rd  == brReadN(content, st.br, BlockSize,
                       IF fail = "short" THEN ShortRead ELSE BufioSize)
        st1 == [st EXCEPT !.tid = tid, !.br = rd.br, !.bytesRead = @ + Len(rd.data)]
        pkt == createDataPacket(tid, rd.data)
    IN  IF rd.eof
        THEN [st |-> [st EXCEPT !.tid = tid, !.br = rd.br],
              out |-> <<>>, lost |-> <<>>, ret |-> "nil"]
        ELSE IF fail = "WriteTo"
        THEN [st |-> st1, out |-> <<>>, lost |-> <<pkt>>, ret |-> "write data"]
        ELSE [st |-> st1, out |-> <<pkt>>, lost |-> <<>>, ret |-> "blocked"]

\* ReadFileLoop from the return of ReadFrom(ackBuf) to the next blocking
\* ReadFrom or to its return
ReadFileLoopRecvIO(content, st, data, fail) ==
    LET i      == Min(Len(st.ackBuf), Len(data))
        ackBuf == Copy(st.ackBuf, data)
        ack    == ParseAckPacket(ackBuf)
        st1    == [st EXCEPT !.ackBuf = ackBuf]
        stop   == [st |-> st1, out |-> <<>>, lost |-> <<>>, ret |-> ""]
    IN  IF fail = "ReadFrom" THEN [stop EXCEPT !.st = st, !.ret = "read ack"]
        ELSE IF i # 4 THEN [stop EXCEPT !.ret = "ack length"]
        ELSE IF ack.err THEN [stop EXCEPT !.ret = "ack parse"]
        ELSE IF ~AckMatches(ack.tid, st.tid) THEN [stop EXCEPT !.ret = "ack mismatch"]
        ELSE ReadFileLoopSendIO(content, st1, fail)

\* bufio.Writer.Write(p) when the Flush of the full buffer fails after the
\* file took `part` bytes of it: the error sticks and p is not written
bwWriteFails(content, bw, p, part) ==
    LET avail == BufioSize - Len(bw.wbuf)
        buf   == bw.wbuf \o Slice(p, 0, avail)
    IN  [content |-> FileWriteAt(content, bw.wpos, Slice(buf, 0, part)),
         bw |-> [wbuf |-> Slice(buf, part, Len(buf)), wpos |-> bw.wpos + part]]

\* WriteFileLoop from the return of ReadFrom(packet) to the next blocking
\* ReadFrom or to its return
WriteFileLoopRecvIO(content, st, data, fail, part) ==
    LET r       == WriteFileLoopRecv(content, st, data)
        n       == Min(Len(st.packet), Len(data))
        p       == Slice(r.st.packet, 4, n)
        took    == r.ret \in {"nil", "blocked"}
        w       == bwWriteFails(content, st.bw, p, part)
    IN  IF fail = "ReadFrom"
        THEN [st |-> st, content |-> content, out |-> <<>>, lost |-> <<>>, ret |-> "read"]
        ELSE IF fail = "Write" /\ took /\ Len(p) > BufioSize - Len(st.bw.wbuf)
        THEN [st |-> [st EXCEPT !.packet = r.st.packet, !.bw = w.bw],
              content |-> w.content, out |-> <<>>, lost |-> <<>>, ret |-> "write"]
        ELSE IF fail = "WriteTo" /\ took
        THEN [st |-> [r.st EXCEPT !.tid = st.tid], content |-> r.content,
              out |-> <<>>, lost |-> r.out, ret |-> "write ack"]
        ELSE IF fail = "WriteTo"
        THEN [st |-> r.st, content |-> r.content, out |-> <<>>, lost |-> r.out,
              ret |-> r.ret]
        ELSE [st |-> r.st, content |-> r.content, out |-> r.out, lost |-> <<>>,
              ret |-> r.ret]

\* The effect of one such step of handler t: a failed ReadFrom consumes no
\* datagram and is logged as "rxerr", a failed WriteTo delivers nothing and is
\* logged as "txerr".
StepIO(t, consumed, r2, out, lost) ==
    LET me   == SrvSock(t)
        rest == IF r2.conn = "closed" THEN <<>>
                ELSE IF consumed THEN Tail(inbox[me]) ELSE inbox[me]
        rx   == IF consumed
                THEN Events("rx", Head(inbox[me]).from, <<Head(inbox[me]).data>>)
                ELSE IF r2.ret \in {"read", "read ack"}
                THEN Events("rxerr", NoAddr, <<<<>>>>)
                ELSE <<>>
    IN  /\ tr' = [tr EXCEPT ![t] = r2]
        /\ inbox' = Deliver([inbox EXCEPT ![me] = rest], me, r2.remote, out)
        /\ ev' = [ev EXCEPT ![me] = @ \o rx \o Events("tx", r2.remote, out)
                                      \o Events("txerr", r2.remote, lost)]

\* what may happen in a step: nothing, or one of `kinds` while the run has
\* not used up its faults
Faults(kinds) == {""} \cup (IF ninj < MaxInject THEN kinds ELSE {})

\* handleReadRequest with a source that may fall short and a socket that may
\* fail
handleReadRequestIO(t) ==
    /\ tr[t].pc = "spawned"
    /\ handlerMapping[tr[t].op] = "handleReadRequest"
    /\ \E fail \in Faults({"short", "WriteTo"}) :
       \E r \in {[tr[t] EXCEPT !.conn = "open"]} :
       \E f \in {FsLookup(sfs, r.filename)} :
       \E res \in {ReadFileLoopSendIO(f.data, ReadFileLoopEnter, fail)} :
           /\ fail = "WriteTo" => (f.state = "file" /\ res.lost # <<>>)
           /\ fail = "short" => (f.state = "file" /\ Len(f.data) > ShortRead)
           /\ ninj' = IF fail = "" THEN ninj ELSE ninj + 1
           /\ IF f.state = "absent"
              THEN StepIO(t, FALSE, [r EXCEPT !.pc = "done", !.conn = "closed",
                                              !.ret = "not found"],
                          <<SendError(1, MsgFileNotFound)>>, <<>>)
              ELSE IF f.state # "file"
              THEN StepIO(t, FALSE, [r EXCEPT !.pc = "done", !.conn = "closed",
                                              !.ret = "open"],
                          <<SendError(0, MsgOsError)>>, <<>>)
              ELSE IF res.ret = "blocked"
              THEN StepIO(t, FALSE, [r EXCEPT !.pc = "waitack", !.fh = "open",
                                              !.st = res.st], res.out, res.lost)
              ELSE StepIO(t, FALSE, [r EXCEPT !.pc = "done", !.conn = "closed",
                                              !.fh = "closed", !.st = res.st,
                                              !.ret = res.ret], res.out, res.lost)
    /\ UNCHANGED <<sfs, todo, upload, cl, cfs, dec>>

\* ReadFileLoop in handler t: ReadFrom(ackBuf) returns, with a datagram or an
\* error, to the next ReadFrom or to the return of handleReadRequest
ReadFileLoopIO(t) ==
    /\ tr[t].pc = "waitack"
    /\ \E fail \in Faults({"short", "WriteTo", "ReadFrom"}) :
       \E r \in {tr[t]} :
       \E got \in {fail # "ReadFrom"} :
       \E data \in {IF got /\ inbox[SrvSock(t)] # <<>>
                    THEN Head(inbox[SrvSock(t)]).data ELSE <<>>} :
       \E res \in {ReadFileLoopRecvIO(FsLookup(sfs, r.filename).data, r.st, data, fail)} :
           /\ got => inbox[SrvSock(t)] # <<>>
           /\ fail = "WriteTo" => res.lost # <<>>
           /\ fail = "short" => res.ret = "blocked"
           /\ ninj' = IF fail = "" THEN ninj ELSE ninj + 1
           /\ IF res.ret = "blocked"
              THEN StepIO(t, got, [r EXCEPT !.st = res.st], res.out, res.lost)
              ELSE StepIO(t, got, [r EXCEPT !.pc = "done", !.conn = "closed",
                                            !.fh = "closed", !.st = res.st,
                                            !.ret = res.ret], res.out, res.lost)
    /\ UNCHANGED <<sfs, todo, upload, cl, cfs, dec>>

\* the deferred calls of handleWriteRequest: bw.Flush, which does nothing once
\* a write has failed, fileCleanup, conn.Close
WriteReturnIO(r, content, res) ==
    IF res.ret = "write"
    THEN [r |-> [r EXCEPT !.pc = "done", !.conn = "closed", !.fh = "closed",
                          !.synced = TRUE, !.st = res.st, !.ret = res.ret],
          content |-> content]
    ELSE WriteReturn(r, content, res)

\* WriteFileLoop in handler t: ReadFrom(packet) returns, with a datagram or an
\* error, to the next ReadFrom or to the return of handleWriteRequest
WriteFileLoopIO(t) ==
    /\ tr[t].pc = "waitdata"
    /\ \E fail \in Faults({"WriteTo", "ReadFrom", "Write"}) :
       \E part \in IF fail = "Write" THEN {0, BlockSize} ELSE {0} :
       \E r \in {tr[t]} :
       \E got \in {fail # "ReadFrom"} :
       \E data \in {IF got /\ inbox[SrvSock(t)] # <<>>
                    THEN Head(inbox[SrvSock(t)]).data ELSE <<>>} :
       \E res \in {WriteFileLoopRecvIO(FsLookup(sfs, r.filename).data, r.st, data,
                                        fail, part)} :
       \E fin \in {WriteReturnIO(r, res.content, res)} :
           /\ got => inbox[SrvSock(t)] # <<>>
           /\ fail = "WriteTo" => res.lost # <<>>
           /\ fail = "Write" => res.ret = "write"
           /\ ninj' = IF fail = "" THEN ninj ELSE ninj + 1
           /\ IF res.ret = "blocked"
              THEN /\ StepIO(t, got, [r EXCEPT !.st = res.st], res.out, res.lost)
                   /\ sfs' = FsStore(sfs, r.filename, res.content)
              ELSE /\ StepIO(t, got, fin.r, res.out, res.lost)
                   /\ sfs' = FsStore(sfs, r.filename, fin.content)
    /\ UNCHANGED <<todo, upload, cl, cfs, dec>>


\* ------------------------------------------------------- the remote peers
UploadData(n) == [i \in 1..n |-> (i * 11 + 3 + (i \div BlockSize)) % 256]

\* the requests a peer may send to the rendezvous port
Requests ==
    {ToBytes(OpRRQ, name, StrOctet) : name \in {FileNameF, FileNameG, FileNameD}}
    \cup {ToBytes(OpWRQ, name, StrOctet) : name \in {FileNameG, FileNameD}}

\* a peer sends its request
PeerRequest(p) ==
    /\ p \in todo
    /\ \E req \in Requests :
          /\ inbox' = Deliver(inbox, PeerAddr(p), Rendezvous, <<req>>)
          /\ ev' = [ev EXCEPT ![PeerAddr(p)] = @ \o Events("tx", Rendezvous, <<req>>)]
    /\ todo' = todo \ {p}
    /\ UNCHANGED <<tr, sfs, upload, ninj, cl, cfs, dec>>

\* modes in other spellings ("OCTET", "NetAscii") and a mode that is not one
\* ("bin")
StrOctetUpper == <<79, 67, 84, 69, 84>>
StrNetAsciiMixed == <<78, 101, 116, 65, 115, 99, 105, 105>>
StrBin == <<98, 105, 110>>

\* further datagrams a peer may send to the rendezvous port: accepted modes in
\* other spellings, modes that are not accepted, opcodes without a handler,
\* missing terminators, datagrams too short and too long, and requests
\* followed by zero bytes up to the size of the listener's buffer and one less
OtherRequests ==
    {ToBytes(OpRRQ, FileNameF, m) :
        m \in {StrNetascii, StrMail, StrOctetUpper, StrNetAsciiMixed}}
    \cup {ToBytes(op, FileNameF, m) :
             op \in {OpRRQ, OpWRQ}, m \in {<<>>, StrBin, StrOctet \o <<120>>}}
    \cup {ToBytes(op, FileNameF, StrOctet) : op \in {0, OpDATA, OpACK, OpERROR, 6}}
    \cup {PutUint16(OpRRQ) \o FileNameF \o <<0>> \o StrOctet,
          PutUint16(OpWRQ) \o FileNameG \o <<0>> \o StrOctet,
          PutUint16(OpRRQ) \o FileNameF}
    \cup {<<>>, <<0>>, ToBytes(OpRRQ, FileNameF, StrOctet) \o Zeros(MaxPacketSize)}
    \cup {Copy(Zeros(n), ToBytes(op, FileNameG, StrOctet)) :
             n \in {MaxPacketSize - 1, MaxPacketSize}, op \in {OpRRQ, OpWRQ}}

\* the datagrams peer p has sent to the rendezvous port
Requested(p) ==
    SelectSeq(ev[PeerAddr(p)], LAMBDA e : e.k = "tx" /\ e.peer = Rendezvous)

\* a peer that sent its request sends a further datagram to the rendezvous
\* port: the request once more, another request, or a datagram that is none
PeerRequestAgain(p) ==
    /\ Requested(p) # <<>>
    /\ Len(Requested(p)) < Cardinality(Slots)
    /\ \E req \in Requests \cup OtherRequests :
          /\ inbox' = Deliver(inbox, PeerAddr(p), Rendezvous, <<req>>)
          /\ ev' = [ev EXCEPT ![PeerAddr(p)] = @ \o Events("tx", Rendezvous, <<req>>)]
    /\ UNCHANGED <<tr, sfs, todo, upload, ninj, cl, cfs, dec>>

\* what a peer that follows the protocol answers to a datagram: ACK(k) to
\* DATA(k); to ACK(k) the block k+1 of its upload, the last one being short
PeerAnswer(data) ==
    LET o   == GetOpCode(data)
        blk == Uint16(Slice(data, 2, 4))
    IN  IF Len(data) < 4 \/ o.err THEN <<>>
        ELSE IF o.op = OpDATA THEN <<CreateAckPacket(blk)>>
        ELSE IF o.op = OpACK /\ blk * BlockSize <= Len(upload)
        THEN <<createDataPacket((blk + 1) % Wrap16,
                   Slice(upload, blk * BlockSize,
                         Min((blk + 1) * BlockSize, Len(upload))))>>
        ELSE <<>>

\* a peer takes the next datagram from its socket and answers its sender
PeerReply(p) ==
    /\ inbox[PeerAddr(p)] # <<>>
    /\ \E me \in {PeerAddr(p)} :
       \E dg \in {Head(inbox[me])} :
       \E out \in {PeerAnswer(dg.data)} :
           /\ inbox' = Deliver([inbox EXCEPT ![me] = Tail(@)], me, dg.from, out)
           /\ ev' = [ev EXCEPT ![me] = @ \o Events("rx", dg.from, <<dg.data>>)
                                         \o Events("tx", dg.from, out)]
    /\ UNCHANGED <<tr, sfs, todo, upload, ninj, cl, cfs, dec>>

\* the datagrams a misbehaving or foreign sender may put into the socket of a
\* waiting transfer whose block counter is tid
Injections(tid) ==
    {CreateAckPacket(k) : k \in {0, tid, (tid + 1) % Wrap16}}
    \cup {CreateAckPacket(tid) \o <<0>>}
    \cup {createDataPacket(k, <<1, 2, 3>>) : k \in {0, tid, (tid + 1) % Wrap16}}
    \cup {CreateErrorPacket(3, <<88>>), <<0, 9, 0, 1>>}
    \cup {<<>>, <<0>>, <<0, 3>>, <<0, 3, 0>>, <<0, 4>>, <<0, 4, 0>>}

PeerInject(t) ==
    /\ ninj < MaxInject
    /\ tr[t].pc \in {"waitack", "waitdata"}
    /\ inbox[SrvSock(t)] = <<>>
    /\ \E from \in {tr[t].remote, Stranger}, data \in Injections(tr[t].st.tid) :
          inbox' = [inbox EXCEPT ![SrvSock(t)] = Append(@, [from |-> from, data |-> data])]
    /\ ninj' = ninj + 1
    /\ UNCHANGED <<tr, sfs, ev, todo, upload, cl, cfs, dec>>

\* -------------------------------------------------------------- the client
\* The effect of one step of the client on its record, its socket and the log;
\* out is written to dst.
ClientStep(consumed, c2, dst, out) ==
    LET me   == ClientSock
        dg   == Head(inbox[me])
        rest == IF c2.conn = "closed" THEN <<>>
                ELSE IF consumed THEN Tail(inbox[me]) ELSE inbox[me]
        rx   == IF consumed THEN Events("rx", dg.from, <<dg.data>>) ELSE <<>>
    IN  /\ cl' = c2
        /\ inbox' = Deliver([inbox EXCEPT ![me] = rest], me, dst, out)
        /\ ev' = [ev EXCEPT ![me] = @ \o rx \o Events("tx", dst, out)]

\* handlePut from its start to the blocking ReadFrom(ackBuf): os.Open,
\* getAddrAndConn, the WRQ written to the server's address
handlePut ==
    /\ cl.pc = "start"
    /\ cl.mode = "put"
    /\ IF FsLookup(cfs, cl.filename).state # "file"
       THEN /\ cl' = [cl EXCEPT !.pc = "done", !.ret = "open"]
            /\ UNCHANGED <<inbox, ev>>
       ELSE ClientStep(FALSE, [cl EXCEPT !.pc = "put ack", !.conn = "open", !.fh = "open"],
                       Rendezvous, <<ToBytes(OpWRQ, cl.filename, StrOctet)>>)
    /\ UNCHANGED <<tr, sfs, todo, upload, ninj, cfs, dec>>

\* handlePut: the first datagram is read into a fresh 4-byte buffer and parsed as
\* an ACK; its sender becomes remoteAddr and ReadFileLoop runs to its first
\* blocking ReadFrom.  handlePut returns nil whatever ReadFileLoop returns.
handlePutAck ==
    /\ cl.pc = "put ack"
    /\ inbox[ClientSock] # <<>>
    /\ \E dg \in {Head(inbox[ClientSock])} :
       \E ack \in {ParseAckPacket(Copy(Zeros(AckSize), dg.data))} :
       \E res \in {ReadFileLoopSend(FsLookup(cfs, cl.filename).data, ReadFileLoopEnter)} :
       \E c1 \in {[cl EXCEPT !.remote = dg.from]} :
           IF ack.err
           THEN ClientStep(TRUE, [c1 EXCEPT !.pc = "done", !.conn = "closed", !.fh = "closed",
                                           !.ret = "ack parse"], dg.from, <<>>)
           ELSE IF res.ret = "blocked"
           THEN ClientStep(TRUE, [c1 EXCEPT !.pc = "waitack", !.st = res.st], dg.from, res.out)
           ELSE ClientStep(TRUE, [c1 EXCEPT !.pc = "done", !.conn = "closed", !.fh = "closed",
                                           !.st = res.st, !.loop = res.ret, !.ret = "nil"],
                           dg.from, res.out)
    /\ UNCHANGED <<tr, sfs, todo, upload, ninj, cfs, dec>>

\* ReadFileLoop in handlePut: ReadFrom(ackBuf) returns, to the next ReadFrom or
\* to the return of handlePut
handlePutLoop ==
    /\ cl.pc = "waitack"
    /\ inbox[ClientSock] # <<>>
    /\ \E res \in {ReadFileLoopRecv(FsLookup(cfs, cl.filename).data, cl.st,
                                     Head(inbox[ClientSock]).data)} :
           IF res.ret = "blocked"
           THEN ClientStep(TRUE, [cl EXCEPT !.st = res.st], cl.remote, res.out)
           ELSE ClientStep(TRUE, [cl EXCEPT !.pc = "done", !.conn = "closed", !.fh = "closed",
                                           !.st = res.st, !.loop = res.ret, !.ret = "nil"],
                           cl.remote, res.out)
    /\ UNCHANGED <<tr, sfs, todo, upload, ninj, cfs, dec>>

\* handleGet from its start to the blocking ReadFrom of WriteFileLoop: the RRQ
\* written to the server's address, os.Create, WriteFileLoop(bw, conn, serverAddr)
handleGet ==
    /\ cl.pc = "start"
    /\ cl.mode = "get"
    /\ IF FsLookup(cfs, cl.filename).state = "denied"
       THEN /\ ClientStep(FALSE, [cl EXCEPT !.pc = "done", !.conn = "closed", !.ret = "create"],
                          Rendezvous, <<ToBytes(OpRRQ, cl.filename, StrOctet)>>)
            /\ cfs' = cfs
       ELSE /\ ClientStep(FALSE, [cl EXCEPT !.pc = "waitdata", !.conn = "open", !.fh = "open",
                                           !.remote = Rendezvous, !.st = WriteFileLoopEnter],
                          Rendezvous, <<ToBytes(OpRRQ, cl.filename, StrOctet)>>)
            /\ cfs' = FsCreate(cfs, cl.filename)
    /\ UNCHANGED <<tr, sfs, todo, upload, ninj, dec>>

\* WriteFileLoop in handleGet: ReadFrom(packet) returns, to the next ReadFrom or
\* to the return of handleGet (deferred bw.Flush, f.Close, conn.Close)
handleGetLoop ==
    /\ cl.pc = "waitdata"
    /\ inbox[ClientSock] # <<>>
    /\ \E res \in {WriteFileLoopRecv(FsLookup(cfs, cl.filename).data, cl.st,
                                      Head(inbox[ClientSock]).data)} :
       \E fl \in {bwFlush(res.content, res.st.bw)} :
           IF res.ret = "blocked"
           THEN /\ ClientStep(TRUE, [cl EXCEPT !.st = res.st], cl.remote, res.out)
                /\ cfs' = FsStore(cfs, cl.filename, res.content)
           ELSE /\ ClientStep(TRUE, [cl EXCEPT !.pc = "done", !.conn = "closed",
                                               !.fh = "closed",
                                               !.st = [res.st EXCEPT !.bw = fl.bw],
                                               !.loop = res.ret, !.ret = res.ret],
                              cl.remote, res.out)
                /\ cfs' = FsStore(cfs, cl.filename, fl.content)
    /\ UNCHANGED <<tr, sfs, todo, upload, ninj, dec>>

\* ------------------------------------------------------- the specifications
InitFiles(n) ==
    (FileNameF :> [state |-> "file", data |-> FileData(n)])
        @@ (FileNameD :> [state |-> "denied", data |-> <<>>])

InitWith(ps) ==
    /\ inbox = [a \in Addrs |-> <<>>]
    /\ tr = [t \in Slots |-> IdleTransfer]
    /\ ev = [a \in Addrs |-> <<>>]
    /\ todo = ps
    /\ ninj = 0
    /\ cl = ClientOff
    /\ cfs = <<>>
    /\ dec = NoCall
    /\ \E n \in FileLens : sfs = InitFiles(n) /\ upload = UploadData(n)

\* one peer, one transfer
Init == InitWith({1})

Next ==
    \/ handleHandshake
    \/ \E t \in Slots : handleReadRequest(t)
    \/ \E t \in Slots : ReadFileLoop(t)
    \/ \E t \in Slots : handleWriteRequest(t)
    \/ \E t \in Slots : WriteFileLoop(t)
    \/ \E p \in Peers : PeerRequest(p)
    \/ \E p \in Peers : PeerReply(p)
    \/ \E t \in Slots : PeerInject(t)

Spec == Init /\ [][Next]_vars

\* the repository's client against the repository's server, the file of n
\* bytes existing on both sides
InitClient ==
    /\ inbox = [a \in Addrs |-> <<>>]
    /\ tr = [t \in Slots |-> IdleTransfer]
    /\ ev = [a \in Addrs |-> <<>>]
    /\ todo = {1}
    /\ ninj = 0
    /\ \E n \in FileLens :
          /\ sfs = InitFiles(n)
          /\ upload = UploadData(n)
          /\ cfs = (FileNameF :> [state |-> "file", data |-> UploadData(n)])
    /\ dec = NoCall
    /\ \E m \in {"put", "get"} :
          cl = [ClientOff EXCEPT !.pc = "start", !.mode = m, !.filename = FileNameF]

NextClient ==
    \/ handleHandshake
    \/ \E t \in Slots : handleReadRequest(t)
    \/ \E t \in Slots : ReadFileLoop(t)
    \/ \E t \in Slots : handleWriteRequest(t)
    \/ \E t \in Slots : WriteFileLoop(t)
    \/ handlePut
    \/ handlePutAck
    \/ handlePutLoop
    \/ handleGet
    \/ handleGetLoop
    \/ \E p \in Peers : PeerRequest(p)
    \/ \E p \in Peers : PeerReply(p)

SpecClient == InitClient /\ [][NextClient]_vars

\* two peers, two concurrent transfers, every datagram delivered.  The
\* goroutines of the server are scheduled fairly and peer 1 answers every
\* datagram; peer 2 may stay silent for ever.
InitTwo == InitWith({1, 2})

NextTwo ==
    \/ handleHandshake
    \/ \E t \in Slots : handleReadRequest(t)
    \/ \E t \in Slots : ReadFileLoop(t)
    \/ \E t \in Slots : handleWriteRequest(t)
    \/ \E t \in Slots : WriteFileLoop(t)
    \/ \E p \in Peers : PeerRequest(p)
    \/ \E p \in Peers : PeerReply(p)

FairTwo ==
    /\ WF_vars(handleHandshake)
    /\ \A t \in Slots : WF_vars(handleReadRequest(t)) /\ WF_vars(ReadFileLoop(t))
    /\ WF_vars(PeerReply(1))

SpecTwo == InitTwo /\ [][NextTwo]_vars /\ FairTwo

\* one peer that sends to the rendezvous port twice: any request, then the
\* same again, another one, or a datagram that is no request
NextListen ==
    \/ handleHandshake
    \/ \E t \in Slots : handleReadRequest(t)
    \/ \E t \in Slots : ReadFileLoop(t)
    \/ \E t \in Slots : handleWriteRequest(t)
    \/ \E t \in Slots : WriteFileLoop(t)
    \/ \E p \in Peers : PeerRequest(p)
    \/ \E p \in Peers : PeerRequestAgain(p)
    \/ \E p \in Peers : PeerReply(p)

\* files of no byte, of one short block and of full blocks and a byte
InitListen ==
    /\ Init
    /\ Len(upload) \in {0, BlockSize - 1, MaxBlocks * BlockSize + 1}

SpecListen == InitListen /\ [][NextListen]_vars

\* the same with the listener and the handlers of server/server.go; a panic
\* ends the process and with it every goroutine
NextServerGo ==
    \/ handleHandshakeServerGo
    \/ \E t \in Slots : ~Crashed /\ handleReadRequestServerGo(t)
    \/ \E t \in Slots : ~Crashed /\ ReadFileLoopServerGo(t)
    \/ \E t \in Slots : ~Crashed /\ handleWriteRequestServerGo(t)
    \/ \E t \in Slots : ~Crashed /\ WriteFileLoopServerGo(t)
    \/ \E p \in Peers : PeerRequest(p)
    \/ \E p \in Peers : PeerRequestAgain(p)
    \/ \E p \in Peers : PeerReply(p)

SpecServerGo == InitListen /\ [][NextServerGo]_vars


\* the wire codec on its own: one call of a decoder on a buffer, or of an
\* encoder on its arguments
Bytes == {0, 1, 4, 6, 102}

BuffersUpTo(n) == UNION {[1..k -> Bytes] : k \in 0..n}

\* buffers with every opcode value next to the valid ones, alone and followed
\* by further bytes
OpBuffers ==
    {<<a, b>> \o tail : a \in {0, 1, 255}, b \in (0..7) \cup {255},
                        tail \in {<<>>, <<0>>, <<2>>, <<0, 1>>, <<255, 255>>}}

\* strings without a NUL byte
Strings == UNION {[1..k -> {1, 102, 255}] : k \in 0..MaxName}

InitCodec ==
    /\ inbox = [a \in Addrs |-> <<>>]
    /\ tr = [t \in Slots |-> IdleTransfer]
    /\ ev = [a \in Addrs |-> <<>>]
    /\ todo = {}
    /\ ninj = 0
    /\ cl = ClientOff
    /\ cfs = <<>>
    /\ sfs = <<>>
    /\ upload = <<>>
    /\ dec = NoCall

\* the record of a call
Call(fn, in, out) == [fn |-> fn, in |-> in, out |-> out]

CallGetOpCode ==
    /\ dec.fn = ""
    /\ \E packet \in BuffersUpTo(MaxLen) \cup OpBuffers :
          dec' = Call("GetOpCode", packet, GetOpCode(packet))
    /\ UNCHANGED <<inbox, tr, sfs, ev, todo, upload, ninj, cl, cfs>>

CallParseAckPacket ==
    /\ dec.fn = ""
    /\ \E packet \in BuffersUpTo(MaxLen) \cup OpBuffers :
          dec' = Call("ParseAckPacket", packet, ParseAckPacket(packet))
    /\ UNCHANGED <<inbox, tr, sfs, ev, todo, upload, ninj, cl, cfs>>

CallParseRequestPacket ==
    /\ dec.fn = ""
    /\ \E packet \in BuffersUpTo(MaxLen) \cup OpBuffers :
          dec' = Call("ParseRequestPacket", packet, ParseRequestPacket(packet))
    /\ UNCHANGED <<inbox, tr, sfs, ev, todo, upload, ninj, cl, cfs>>

CallCreateAckPacket ==
    /\ dec.fn = ""
    /\ \E tid \in 0..(Wrap16 - 1) :
          dec' = Call("CreateAckPacket", tid, CreateAckPacket(tid))
    /\ UNCHANGED <<inbox, tr, sfs, ev, todo, upload, ninj, cl, cfs>>

CallToBytes ==
    /\ dec.fn = ""
    /\ \E op \in {OpRRQ, OpWRQ}, filename \in Strings, mode \in Strings :
          dec' = Call("ToBytes", [op |-> op, filename |-> filename, mode |-> mode],
                      ToBytes(op, filename, mode))
    /\ UNCHANGED <<inbox, tr, sfs, ev, todo, upload, ninj, cl, cfs>>

\* "Hello", the message of the repository's test of CreateErrorPacket
StrHello == <<72, 101, 108, 108, 111>>

CallCreateErrorPacket ==
    /\ dec.fn = ""
    /\ \E code \in 0..(Wrap16 - 1), message \in {<<>>, <<102>>, StrHello} :
          dec' = Call("CreateErrorPacket", [code |-> code, message |-> message],
                      CreateErrorPacket(code, message))
    /\ UNCHANGED <<inbox, tr, sfs, ev, todo, upload, ninj, cl, cfs>>

NextCodec ==
    \/ CallGetOpCode
    \/ CallParseAckPacket
    \/ CallParseRequestPacket
    \/ CallCreateAckPacket
    \/ CallToBytes
    \/ CallCreateErrorPacket

SpecCodec == InitCodec /\ [][NextCodec]_vars

\* ------------------------------------------------------ reading the logs
\* a packet with a 4-byte header whose opcode is op
IsOp(d, op) == Len(d) >= 4 /\ Uint16(d) = op

\* the second 16-bit field of a packet: block number or error code
Block(d) == Uint16(Slice(d, 2, 4))

Sent(a) == SelectSeq(ev[a], LAMBDA e : e.k = "tx")

SentOp(a, op) == SelectSeq(ev[a], LAMBDA e : e.k = "tx" /\ IsOp(e.data, op))

\* the payloads of a sequence of DATA events, concatenated
RECURSIVE Payloads(_)
Payloads(es) ==
    IF es = <<>> THEN <<>>
    ELSE Slice(Head(es).data, 4, Len(Head(es).data)) \o Payloads(Tail(es))

\* positions in the log of a where a DATA packet was sent
DataIdx(a) == {j \in 1..Len(ev[a]) : ev[a][j].k = "tx" /\ IsOp(ev[a][j].data, OpDATA)}

\* event e is the receipt of an ACK carrying block number k
AckOf(e, k) == e.k = "rx" /\ Len(e.data) >= 4 /\ SubSeq(e.data, 1, 4) = CreateAckPacket(k)

\* positions where the ACK of the DATA packet sent just before was received
MatchIdx(a) ==
    {j \in 2..Len(ev[a]) : (j - 1) \in DataIdx(a)
                            /\ AckOf(ev[a][j], Block(ev[a][j - 1].data))}

\* the payloads the receive loop of a acknowledged: each DATA received right
\* before an ACK was sent
AckedIdx(a) ==
    {j \in 1..(Len(ev[a]) - 1) : ev[a][j].k = "rx" /\ ev[a][j + 1].k = "tx"
                                  /\ IsOp(ev[a][j + 1].data, OpACK)}

RECURSIVE SumLen(_, _)
SumLen(a, js) ==
    IF js = {} THEN 0
    ELSE LET j == CHOOSE x \in js : TRUE
         IN  Min(MaxPacketSize, Len(ev[a][j].data)) - 4 + SumLen(a, js \ {j})

\* ----------------------------------------------------------------- claims
\* C1: for a source of L bytes and a peer that acknowledges every block, the
\* send loop emits exactly L div 512 + 1 DATA packets, numbered from 1, of 512
\* bytes each except the last, which carries L mod 512 bytes (possibly none),
\* each sent only after the ACK of the block before it.
C1_SendLoopEndsWithShortBlock ==
    \A t \in Slots :
        (tr[t].op = OpRRQ /\ tr[t].pc = "done" /\ tr[t].ret = "nil" /\ ninj = 0) =>
            LET a  == SrvSock(t)
                L  == Len(FsLookup(sfs, tr[t].filename).data)
                ds == SentOp(a, OpDATA)
            IN  /\ Len(ds) = (L \div BlockSize) + 1
                /\ \A i \in 1..Len(ds) :
                      /\ Block(ds[i].data) = i
                      /\ Len(ds[i].data) - 4 =
                            IF i <= L \div BlockSize THEN BlockSize ELSE L % BlockSize
                /\ \A j \in DataIdx(a) : j > 1 => (j - 1) \in MatchIdx(a)

\* C2: a receive loop that gets a DATA packet with a block number other than
\* the expected one emits exactly one ERROR packet, with error code 5, and
\* terminates without writing that packet's payload to the sink.
C2_WrongBlockSendsErrorCode5 ==
    \A t \in Slots :
        (tr[t].op = OpWRQ /\ tr[t].ret = "tid") =>
            LET a    == SrvSock(t)
                errs == SentOp(a, OpERROR)
            IN  /\ tr[t].pc = "done"
                /\ Len(errs) = 1
                /\ Block(errs[1].data) = 5
                /\ Len(FsLookup(sfs, tr[t].filename).data) = SumLen(a, AckedIdx(a))

\* C3: serving an RRQ whose file does not exist sends exactly one ERROR packet
\* with error code 1 to the requester and never a DATA packet.
C3_MissingFileSendsErrorCode1 ==
    \A t \in Slots :
        (tr[t].op = OpRRQ /\ tr[t].pc = "done"
            /\ FsLookup(sfs, tr[t].filename).state = "absent") =>
                LET out == Sent(SrvSock(t))
                IN  /\ Len(out) = 1
                    /\ IsOp(out[1].data, OpERROR)
                    /\ out[1].peer = tr[t].remote
                    /\ Block(out[1].data) = 1
                    /\ SentOp(SrvSock(t), OpDATA) = <<>>

\* C4: in every state of a send loop the DATA packets sent are at most one
\* ahead of the matching ACKs received, and DATA(k+1) is sent only after an ACK
\* carrying k was received.
C4_LockStep ==
    \A t \in Slots :
        tr[t].op = OpRRQ =>
            LET a == SrvSock(t)
            IN  /\ Cardinality(DataIdx(a)) - Cardinality(MatchIdx(a)) \in {0, 1}
                /\ \A j \in DataIdx(a) :
                      (\E i \in DataIdx(a) : i < j) =>
                          \E h \in 1..(j - 1) :
                              AckOf(ev[a][h], (Block(ev[a][j].data) + Wrap16 - 1) % Wrap16)

\* a send loop that sent three blocks, the first two acknowledged
C4_Witness ==
    \E t \in Slots :
        /\ tr[t].op = OpRRQ
        /\ Cardinality(DataIdx(SrvSock(t))) = 3
        /\ Cardinality(MatchIdx(SrvSock(t))) = 2

\* C5: within a transfer the i-th DATA packet sent carries block number i, and
\* the ACKs sent by the receive side are ACK(0), ACK(1), ACK(2), ... without
\* gap or repetition (modulo 65536).
C5_BlockSequencing ==
    \A t \in Slots :
        LET ds  == SentOp(SrvSock(t), OpDATA)
            aks == SentOp(SrvSock(t), OpACK)
        IN  /\ \A i \in 1..Len(ds) : Block(ds[i].data) = i % Wrap16
            /\ \A i \in 1..Len(aks) : Block(aks[i].data) = (i - 1) % Wrap16

\* a receive side that sent ACK(0), ACK(1) and ACK(2)
C5_Witness ==
    \E t \in Slots : tr[t].op = OpWRQ /\ Len(SentOp(SrvSock(t), OpACK)) = 3

\* C6: when the datagram received after DATA(k) is an ACK whose block number
\* is not k, the send loop terminates with an error and sends nothing more.
C6_AckMismatchTerminates ==
    \A t \in Slots :
        tr[t].op = OpRRQ =>
            LET a == SrvSock(t)
            IN  \A j \in 2..Len(ev[a]) :
                    ( /\ ev[a][j].k = "rx"
                      /\ (j - 1) \in DataIdx(a)
                      /\ IsOp(ev[a][j].data, OpACK)
                      /\ Block(ev[a][j].data) # Block(ev[a][j - 1].data) )
                    => /\ j = Len(ev[a])
                       /\ tr[t].pc = "done"
                       /\ tr[t].ret = "ack mismatch"

\* a send loop that received ACK(k+1) for its second block
C6_Witness ==
    \E t \in Slots :
        LET a == SrvSock(t)
            n == Len(ev[a])
        IN  /\ tr[t].op = OpRRQ
            /\ n = 4
            /\ ev[a][n].k = "rx"
            /\ IsOp(ev[a][n].data, OpACK)
            /\ Block(ev[a][n].data) = Block(ev[a][n - 1].data) + 1


\* the transfer of the server that serves the client, finished
ServedClient(t) == tr[t].remote = ClientSock /\ tr[t].pc = "done"

\* C7: a PUT of the client against the server over a network that delivers
\* every datagram ends, for every file length, with both loops terminated and
\* the server's sink holding exactly the client's file, flushed and closed.
C7_PutCompletes ==
    (cl.mode = "put" /\ ~ENABLED NextClient) =>
        /\ cl.pc = "done"
        /\ \E t \in Slots :
              /\ ServedClient(t)
              /\ tr[t].fh = "closed"
              /\ tr[t].synced
              /\ tr[t].st.bw.wbuf = <<>>
        /\ FsLookup(sfs, FileNameF).data = FsLookup(cfs, FileNameF).data

\* C8: a GET of the client against the server over a network that delivers
\* every datagram ends, for every file length, with both loops terminated and
\* the client's file holding exactly the server's file.
C8_GetCompletes ==
    (cl.mode = "get" /\ ~ENABLED NextClient) =>
        /\ cl.pc = "done"
        /\ \E t \in Slots : ServedClient(t)
        /\ FsLookup(cfs, FileNameF).data = FsLookup(sfs, FileNameF).data

\* C9: after the request, no packet of a transfer is addressed to the server's
\* rendezvous address: whatever is written to it is an RRQ or a WRQ.
C9_RendezvousGetsOnlyRequests ==
    \A a \in Addrs :
        \A i \in 1..Len(ev[a]) :
            (ev[a][i].k = "tx" /\ ev[a][i].peer = Rendezvous) =>
                /\ Len(ev[a][i].data) >= 2
                /\ Uint16(ev[a][i].data) \in {OpRRQ, OpWRQ}

\* the transfer serving peer p has sent the whole file and returned
Served(p) ==
    \E t \in Slots :
        /\ tr[t].remote = PeerAddr(p)
        /\ tr[t].op = OpRRQ
        /\ tr[t].pc = "done"
        /\ tr[t].ret = "nil"
        /\ Payloads(SentOp(SrvSock(t), OpDATA)) = FsLookup(sfs, FileNameF).data

\* peer p asked for the file that exists
AskedForFile(p) ==
    /\ ev[PeerAddr(p)] # <<>>
    /\ ev[PeerAddr(p)][1].data = ToBytes(OpRRQ, FileNameF, StrOctet)

\* C10: two RRQ transfers for two remote addresses progress independently:
\* the transfer of peer 1 sends all its blocks and terminates whatever peer 2
\* does, also when the ACKs of peer 2's transfer never come.
C10_IndependentProgress == AskedForFile(1) ~> Served(1)

\* peer 1 is served while the transfer of peer 2 still waits for its first ACK
C10_Witness ==
    /\ Served(1)
    /\ \E u \in Slots :
          /\ tr[u].remote = PeerAddr(2)
          /\ tr[u].op = OpRRQ
          /\ tr[u].pc = "waitack"
          /\ Len(ev[SrvSock(u)]) = 1
          /\ Len(FsLookup(sfs, FileNameF).data) > BlockSize


\* ------------------------------------------------------------ the listener
\* the goroutines the listener has launched
Launched == {t \in Slots : tr[t].pc # "idle"}

\* what handleHandshake returned, datagram after datagram
Returns == SelectSeq(ev[Rendezvous], LAMBDA e : e.k = "ret")

\* the returns without error
Accepted == SelectSeq(Returns, LAMBDA e : e.err = "")

\* C11: the listener never waits for a transfer: whenever a datagram is queued
\* at the rendezvous socket the listener can take and dispatch it, whatever
\* the transfers launched before are doing.
C11_ListenerNeverWaits == inbox[Rendezvous] # <<>> => ENABLED handleHandshake

\* a second request was dispatched while the first transfer is blocked in
\* ReadFrom with nothing to read
C11_Witness ==
    /\ tr[1].pc \in {"waitack", "waitdata"}
    /\ inbox[SrvSock(1)] = <<>>
    /\ tr[2].pc = "spawned"
    /\ Len(Accepted) = 2

\* C12: every request the listener accepts launches exactly one transfer, in a
\* goroutine of its own, which starts from block 1 (ACK 0 for a write) at the
\* beginning of the file with no state of an earlier transfer; a repeated
\* request launches a further transfer.
C12_OneFreshTransferPerRequest ==
    /\ Cardinality(Launched) = Len(Accepted)
    /\ \A i \in 1..Len(Accepted) : Accepted[i].go = i
    /\ \A t \in Launched :
          LET ds   == SentOp(SrvSock(t), OpDATA)
              aks  == SentOp(SrvSock(t), OpACK)
              sent == Payloads(ds)
          IN  /\ tr[t].pc = "spawned" => tr[t].st = NoLoop /\ ev[SrvSock(t)] = <<>>
              /\ ds # <<>> => Block(ds[1].data) = 1
              /\ aks # <<>> => Block(aks[1].data) = 0
              /\ (tr[t].op = OpRRQ /\ tr[t].filename = FileNameF) =>
                    sent = SubSeq(FsLookup(sfs, FileNameF).data, 1, Len(sent))

\* the same request sent twice by one peer, two transfers, each of which has
\* sent its block 1
C12_Witness ==
    /\ Len(Requested(1)) = 2
    /\ Requested(1)[1].data = Requested(1)[2].data
    /\ Len(Accepted) = 2
    /\ \A t \in Slots : SentOp(SrvSock(t), OpDATA) # <<>>

\* C13: a well-formed RRQ or WRQ with an accepted mode makes handleHandshake
\* return nil and launch, exactly once, the handler registered for its
\* opcode with the sender's address and the decoded filename.
C13_DispatchByOpcode ==
    \A j \in 1..Len(ev[Rendezvous]) :
        \A op \in {OpRRQ, OpWRQ}, name \in {FileNameF, FileNameG, FileNameD},
           mode \in {StrNetascii, StrOctet, StrMail, StrOctetUpper, StrNetAsciiMixed} :
            (ev[Rendezvous][j].k = "rx" /\ ev[Rendezvous][j].data = ToBytes(op, name, mode)) =>
                LET ret == ev[Rendezvous][j + 1]
                    out == Sent(SrvSock(ret.go))
                IN  /\ ret.k = "ret"
                    /\ ret.err = ""
                    /\ ret.go \in Launched
                    /\ \A i \in 1..Len(ev[Rendezvous]) :
                          (i # j + 1 /\ ev[Rendezvous][i].k = "ret") =>
                              ev[Rendezvous][i].go # ret.go
                    /\ tr[ret.go].op = op
                    /\ tr[ret.go].remote = ev[Rendezvous][j].peer
                    /\ tr[ret.go].filename = name
                    /\ \A i \in 1..Len(out) :
                          /\ out[i].peer = ev[Rendezvous][j].peer
                          /\ op = OpRRQ => ~IsOp(out[i].data, OpACK)
                          /\ op = OpWRQ => ~IsOp(out[i].data, OpDATA)

\* an RRQ and a WRQ were dispatched and both handlers have answered
C13_Witness ==
    /\ Len(Accepted) = 2
    /\ tr[1].op = OpRRQ
    /\ tr[2].op = OpWRQ
    /\ SentOp(SrvSock(1), OpDATA) # <<>>
    /\ SentOp(SrvSock(2), OpACK) # <<>>

\* C14: a request whose opcode has no registered handler is logged and
\* discarded: handleHandshake returns an error, launches no handler, and the
\* process lives on to take the next datagram.
C14_NoHandlerIsDiscarded ==
    \A j \in 1..Len(ev[Rendezvous]) :
        \A op \in {0, OpDATA, OpACK, OpERROR} :
            (ev[Rendezvous][j].k = "rx"
                /\ ev[Rendezvous][j].data = ToBytes(op, FileNameF, StrOctet)) =>
                    /\ ev[Rendezvous][j + 1].k = "ret"
                    /\ ev[Rendezvous][j + 1].err = "no handler"
                    /\ ev[Rendezvous][j + 1].go = 0
                    /\ ~Crashed

\* C15: a request datagram that ends before the NUL of its filename or of its
\* mode is a decode failure for the listener: handleHandshake returns an error
\* and launches no handler.
C15_TruncatedRequestIsDiscarded ==
    \A j \in 1..Len(ev[Rendezvous]) :
        \A op \in {OpRRQ, OpWRQ}, name \in {FileNameF, FileNameG} :
            (ev[Rendezvous][j].k = "rx"
                /\ ev[Rendezvous][j].data \in {PutUint16(op) \o name \o <<0>> \o StrOctet,
                                               PutUint16(op) \o name}) =>
                    /\ ev[Rendezvous][j + 1].k = "ret"
                    /\ ev[Rendezvous][j + 1].err # ""
                    /\ ev[Rendezvous][j + 1].go = 0

\* C16: a request launches a handler if and only if its mode is netascii,
\* octet or mail in any spelling of upper and lower case; a request with
\* another mode, the empty one too, is discarded, and the listener never
\* answers a requester with a packet of its own.
C16_ModeAcceptance ==
    /\ Sent(Rendezvous) = <<>>
    /\ \A j \in 1..Len(ev[Rendezvous]) :
          \A op \in {OpRRQ, OpWRQ}, name \in {FileNameF, FileNameG, FileNameD} :
              /\ \A mode \in {StrNetascii, StrOctet, StrMail, StrOctetUpper, StrNetAsciiMixed} :
                    (ev[Rendezvous][j].k = "rx"
                        /\ ev[Rendezvous][j].data = ToBytes(op, name, mode)) =>
                            /\ ev[Rendezvous][j + 1].err = ""
                            /\ ev[Rendezvous][j + 1].go \in Launched
              /\ \A mode \in {<<>>, StrBin, StrOctet \o <<120>>} :
                    (ev[Rendezvous][j].k = "rx"
                        /\ ev[Rendezvous][j].data = ToBytes(op, name, mode)) =>
                            /\ ev[Rendezvous][j + 1].err = "mode"
                            /\ ev[Rendezvous][j + 1].go = 0

\* a request in mode "OCTET" was dispatched, or one in mode "bin" discarded
\* after a request in mode "octet" was dispatched
C16_Witness ==
    \E j \in 1..Len(ev[Rendezvous]) :
        /\ ev[Rendezvous][j].k = "rx"
        /\ \/ /\ ev[Rendezvous][j].data = ToBytes(OpRRQ, FileNameF, StrOctetUpper)
              /\ ev[Rendezvous][j + 1].go = 2
              /\ SentOp(SrvSock(2), OpDATA) # <<>>
           \/ /\ ev[Rendezvous][j].data = ToBytes(OpWRQ, FileNameF, StrBin)
              /\ ev[Rendezvous][j + 1].err = "mode"
              /\ Len(Accepted) = 1

\* ------------------------------------------------------------- the codec
\* C17: GetOpCode returns an error together with OpERROR for every buffer
\* shorter than 2 bytes and for every buffer whose first two bytes, big-endian,
\* are not a value in 1..5, 0 included; for a value in 1..5 it returns that
\* value without error, whatever follows.
C17_GetOpCodeRange ==
    dec.fn = "GetOpCode" =>
        IF Len(dec.in) >= 2 /\ (dec.in[1] * 256 + dec.in[2]) \in 1..5
        THEN dec.out = [op |-> dec.in[1] * 256 + dec.in[2], err |-> FALSE]
        ELSE dec.out = [op |-> OpERROR, err |-> TRUE]

\* C18: no decoder crashes: on every buffer of every length GetOpCode,
\* ParseAckPacket and ParseRequestPacket return a value or an error and none
\* reads outside the buffer.
C18_DecodersNeverPanic ==
    /\ dec.fn = "ParseAckPacket" => ~dec.out.panic
    /\ dec.fn = "GetOpCode" => dec.out.err \in BOOLEAN
    /\ dec.fn = "ParseRequestPacket" => dec.out.err \in BOOLEAN

\* C19: CreateAckPacket(n) is the 4 bytes 0, 4, n div 256, n mod 256 and
\* ParseAckPacket gives n back without error, for every n in 0..65535; a
\* 4-byte packet with another opcode makes ParseAckPacket return an error.
C19_AckRoundTrip ==
    /\ dec.fn = "CreateAckPacket" =>
          /\ dec.out = <<0, 4, dec.in \div 256, dec.in % 256>>
          /\ ParseAckPacket(dec.out) = [tid |-> dec.in, err |-> FALSE, panic |-> FALSE]
    /\ (dec.fn = "ParseAckPacket" /\ Len(dec.in) = 4
            /\ <<dec.in[1], dec.in[2]>> # <<0, 4>>) =>
          dec.out.err /\ ~dec.out.panic

\* the ACK of the last block number
C19_Witness == dec.fn = "CreateAckPacket" /\ dec.in = 65535

\* C20: for RRQ and WRQ and every filename and mode without a NUL byte,
\* ToBytes yields opcode, name, 0, mode, 0 and ParseRequestPacket gives the
\* three fields back without error.
C20_RequestRoundTrip ==
    dec.fn = "ToBytes" =>
        /\ dec.out = <<0, dec.in.op>> \o dec.in.filename \o <<0>> \o dec.in.mode \o <<0>>
        /\ ParseRequestPacket(dec.out) =
              [op |-> dec.in.op, filename |-> dec.in.filename,
               mode |-> dec.in.mode, err |-> FALSE]

\* a WRQ with a filename and a mode of two bytes
C20_Witness ==
    /\ dec.fn = "ToBytes"
    /\ dec.in.op = OpWRQ
    /\ Len(dec.in.filename) = 2
    /\ Len(dec.in.mode) = 2
    /\ dec.in.filename # dec.in.mode

\* C21: a transfer acts only on datagrams from the peer that made the request:
\* after a datagram from any other address its loop neither acknowledges (and
\* writes) the DATA nor sends the next DATA block.
C21_OnlyTheRequesterIsHeard ==
    \A t \in Slots :
        LET a == SrvSock(t)
        IN  \A j \in 1..Len(ev[a]) :
                (ev[a][j].k = "rx" /\ ev[a][j].peer # tr[t].remote) =>
                    ~(/\ j < Len(ev[a])
                      /\ ev[a][j + 1].k = "tx"
                      /\ \/ IsOp(ev[a][j + 1].data, OpACK)
                         \/ IsOp(ev[a][j + 1].data, OpDATA))

\* C22: whenever handleReadRequest or handleWriteRequest has returned, on
\* whatever path, the socket it bound is closed and the file it opened is
\* closed; a written file was flushed and synced before it was closed.
C22_ResourcesReleased ==
    \A t \in Slots :
        tr[t].pc = "done" =>
            /\ tr[t].conn = "closed"
            /\ tr[t].fh \in {"none", "closed"}
            /\ (tr[t].op = OpWRQ /\ tr[t].fh = "closed") =>
                  /\ tr[t].synced
                  /\ tr[t].st.bw.wbuf = <<>>

\* the bytes WriteFileLoop took from the DATA packets it acknowledged among the
\* first j events of socket a: packet[4:n] of each
RECURSIVE Written(_, _)
Written(a, j) ==
    IF j = 0 THEN <<>>
    ELSE Written(a, j - 1)
            \o (IF j \in AckedIdx(a)
                THEN Slice(ev[a][j].data, 4, Min(MaxPacketSize, Len(ev[a][j].data)))
                ELSE <<>>)

\* the payload length of the DATA packet received at position j of a's log
PayloadLen(a, j) == Min(MaxPacketSize, Len(ev[a][j].data)) - 4

\* C23: the receive loop returns success exactly when it accepted a DATA
\* packet with fewer than 512 bytes of payload; the ACK of that packet is the
\* last thing it sends; the sink then holds every accepted payload, flushed,
\* synced and closed; an accepted DATA packet of 512 bytes leaves the loop
\* waiting for the next one.
C23_ReceiveLoopCompletion ==
    \A t \in Slots :
        (tr[t].op = OpWRQ /\ tr[t].pc \in {"waitdata", "done"}) =>
            LET a    == SrvSock(t)
                acc  == AckedIdx(a)
                last == Len(ev[a]) - 1
                ok   == tr[t].pc = "done" /\ tr[t].ret = "nil"
            IN  /\ ok <=> \E j \in acc : PayloadLen(a, j) < BlockSize
                /\ ok =>
                      /\ last \in acc
                      /\ PayloadLen(a, last) < BlockSize
                      /\ ev[a][last + 1].data = CreateAckPacket(Block(ev[a][last].data))
                      /\ ev[a][last + 1].peer = tr[t].remote
                      /\ \A j \in acc \ {last} : PayloadLen(a, j) >= BlockSize
                      /\ tr[t].fh = "closed"
                      /\ tr[t].synced
                      /\ tr[t].st.bw.wbuf = <<>>
                      /\ FsLookup(sfs, tr[t].filename).data = Written(a, Len(ev[a]))
                /\ \A j \in acc :
                      (PayloadLen(a, j) >= BlockSize /\ j = last) => tr[t].pc = "waitdata"

\* an upload of full blocks and a short one has completed
C23_Witness ==
    \E t \in Slots :
        /\ tr[t].op = OpWRQ
        /\ tr[t].pc = "done"
        /\ tr[t].ret = "nil"
        /\ Cardinality(AckedIdx(SrvSock(t))) = MaxBlocks + 1
        /\ Len(FsLookup(sfs, tr[t].filename).data) > MaxBlocks * BlockSize

\* datagram d, sent from socket a, has reached address p: it is queued at p or
\* p has received it
ReachedFrom(p, a, d) ==
    \/ \E j \in 1..Len(inbox[p]) : inbox[p][j] = [from |-> a, data |-> d]
    \/ \E i \in 1..Len(ev[p]) : ev[p][i] = [k |-> "rx", peer |-> a, data |-> d]

\* C24: when the sink of a WRQ was created, the first datagram of the transfer
\* is ACK(0), sent from the transfer's own socket to the requester before any
\* DATA is received; when the sink cannot be created the transfer sends exactly
\* one ERROR packet, with code 0 and the text of the error, sends no ACK and
\* returns.
C24_WriteHandshake ==
    \A t \in Slots :
        (tr[t].op = OpWRQ /\ tr[t].pc \in {"waitdata", "done"}) =>
            LET a == SrvSock(t)
                e == <<0, OpERROR, 0, 0>> \o MsgOsError \o <<0>>
            IN  IF tr[t].ret = "create"
                THEN /\ tr[t].pc = "done"
                     /\ ev[a] = <<[k |-> "tx", peer |-> tr[t].remote, data |-> e]>>
                     /\ ReachedFrom(tr[t].remote, a, e)
                     /\ tr[t].fh = "none"
                ELSE /\ ev[a] # <<>>
                     /\ ev[a][1] = [k |-> "tx", peer |-> tr[t].remote,
                                    data |-> <<0, OpACK, 0, 0>>]
                     /\ ReachedFrom(tr[t].remote, a, <<0, OpACK, 0, 0>>)
                     /\ FsLookup(sfs, tr[t].filename).state = "file"

\* one WRQ was refused because its file cannot be created, another was accepted
\* and has completed
C24_Witness ==
    \E t, u \in Slots :
        /\ tr[t].op = OpWRQ /\ tr[t].ret = "create"
        /\ tr[u].op = OpWRQ /\ tr[u].pc = "done" /\ tr[u].ret = "nil"

\* the senders of the datagrams that reached address p
SendersTo(p) ==
    {inbox[p][j].from : j \in 1..Len(inbox[p])}
        \cup {ev[p][i].peer : i \in {i \in 1..Len(ev[p]) : ev[p][i].k = "rx"}}

RECURSIVE SumRequested(_)
SumRequested(ps) ==
    IF ps = {} THEN 0
    ELSE LET p == CHOOSE x \in ps : TRUE
         IN  Len(Requested(p)) + SumRequested(ps \ {p})

\* C25: every handler uses a socket of its own and only that one: the sockets
\* of two transfers differ and none is the rendezvous socket, a transfer's
\* socket carries the traffic of its own peer only, a peer hears from the
\* sockets of its own transfers only, and on the rendezvous socket nothing is
\* sent and every datagram is received by the listener.
C25_PrivateSockets ==
    /\ \A t \in Launched :
          /\ SrvSock(t) # Rendezvous
          /\ \A u \in Launched \ {t} : SrvSock(u) # SrvSock(t)
          /\ \A j \in 1..Len(ev[SrvSock(t)]) : ev[SrvSock(t)][j].peer = tr[t].remote
    /\ \A p \in Peers :
          SendersTo(PeerAddr(p)) \subseteq
              {SrvSock(t) : t \in {u \in Launched : tr[u].remote = PeerAddr(p)}}
    /\ \A j \in 1..Len(ev[Rendezvous]) : ev[Rendezvous][j].k # "tx"
    /\ SendersTo(Rendezvous) \subseteq {PeerAddr(p) : p \in Peers}
    /\ SumRequested(Peers) = Len(inbox[Rendezvous]) + Len(Returns)

\* two transfers are under way at once, each having heard from its peer
C25_Witness ==
    \A t \in Slots :
        /\ tr[t].pc \in {"waitack", "waitdata"}
        /\ \E j \in 1..Len(ev[SrvSock(t)]) : ev[SrvSock(t)][j].k = "rx"

\* two peers, two concurrent transfers, and one datagram that makes a transfer
\* fail: a wrong, malformed or foreign packet put into its socket
InitFaults ==
    /\ InitTwo
    /\ Len(upload) \in {BlockSize - 1, MaxBlocks * BlockSize + 1}

NextFaults ==
    \/ handleHandshake
    \/ \E t \in Slots : handleReadRequest(t)
    \/ \E t \in Slots : ReadFileLoop(t)
    \/ \E t \in Slots : handleWriteRequest(t)
    \/ \E t \in Slots : WriteFileLoop(t)
    \/ \E p \in Peers : PeerRequest(p)
    \/ \E p \in Peers : PeerReply(p)
    \/ \E t \in Slots : PeerInject(t)

SpecFaults == InitFaults /\ [][NextFaults]_vars

\* transfer t returns with an error in this step
Fails(t) == tr[t].pc # "done" /\ tr'[t].pc = "done" /\ tr'[t].ret # "nil"

\* transfer u is under way
InProgress(u) == tr[u].pc \in {"spawned", "waitack", "waitdata"}

\* C26: a step in which a transfer returns with an error leaves the listener's
\* socket and every other transfer under way as they were: block counter,
\* buffers, socket, queued datagrams and, for a transfer that is writing, the
\* contents of its sink.
C26_FailureIsolation ==
    [][\A t \in Slots :
          Fails(t) =>
              /\ inbox'[Rendezvous] = inbox[Rendezvous]
              /\ ev'[Rendezvous] = ev[Rendezvous]
              /\ \A u \in Slots \ {t} :
                    InProgress(u) =>
                        /\ tr'[u] = tr[u]
                        /\ inbox'[SrvSock(u)] = inbox[SrvSock(u)]
                        /\ ev'[SrvSock(u)] = ev[SrvSock(u)]
                        /\ (tr[u].op = OpWRQ /\ tr[u].fh = "open") =>
                              FsLookup(sfs', tr[u].filename) = FsLookup(sfs, tr[u].filename)
      ]_vars

\* C27: no two write transfers under way at the same time have the same sink:
\* two WRQs for one filename never both hold the created file open.
C27_ExclusiveSink ==
    \A t, u \in Slots :
        (/\ t # u
         /\ tr[t].op = OpWRQ /\ tr[t].fh = "open"
         /\ tr[u].op = OpWRQ /\ tr[u].fh = "open") =>
            tr[t].filename # tr[u].filename

\* --------------------------------------------- a transfer at the 16-bit wrap
\* A transfer that has moved WrapStart full blocks and goes on.  Of its file
\* the model keeps the part from byte WrapBase * BlockSize on, a multiple of
\* the bufio buffer size, and counts file offsets from there: the loops only
\* move forward, so what lies before is never read or written again.
BlocksPerBuffer == BufioSize \div BlockSize
WrapBase == Wrap16 - BlocksPerBuffer
WrapStart == Wrap16 - 2
WrapKept == (WrapStart - WrapBase) * BlockSize

\* the lengths of what is left of the file after block WrapStart
WrapLens == {k * BlockSize + r : k \in 0..(MaxBlocks + 1), r \in {0, 1, BlockSize - 1}}

\* block WrapStart of a file whose kept part is content
WrapBlock(content) == Slice(content, WrapKept - BlockSize, WrapKept)

\* ReadFileLoop blocked in ReadFrom after DATA(WrapStart) was written
WrapReadLoop(content) ==
    [NoLoop EXCEPT !.tid = WrapStart,
                   !.bytesRead = WrapStart * BlockSize,
                   !.br = [rbuf |-> Slice(content, WrapKept, Min(BufioSize, Len(content))),
                           fpos |-> Min(BufioSize, Len(content))],
                   !.ackBuf = CreateAckPacket(WrapStart - 1)]

\* WriteFileLoop blocked in ReadFrom after ACK(WrapStart) was written
WrapWriteLoop(content) ==
    [NoLoop EXCEPT !.tid = NextTid(WrapStart),
                   !.packet = Copy(Zeros(MaxPacketSize),
                                   createDataPacket(WrapStart, WrapBlock(content))),
                   !.bw = [wbuf |-> Slice(content, 0, WrapKept), wpos |-> 0]]

\* the state after WrapStart blocks: a read of file f whose DATA(WrapStart) is
\* on its way to the peer, or a write of file g whose ACK(WrapStart) is
InitWrap ==
    /\ todo = {}
    /\ ninj = 0
    /\ cl = ClientOff
    /\ cfs = <<>>
    /\ dec = NoCall
    /\ \E n \in WrapLens, op \in {OpRRQ, OpWRQ} :
          LET content == IF op = OpRRQ THEN FileData(WrapKept + n)
                         ELSE UploadData(WrapKept + n)
              first   == IF op = OpRRQ
                         THEN createDataPacket(WrapStart, WrapBlock(content))
                         ELSE CreateAckPacket(WrapStart)
              r       == [IdleTransfer EXCEPT
                             !.op = op, !.remote = PeerAddr(1),
                             !.conn = "open", !.fh = "open",
                             !.filename = IF op = OpRRQ THEN FileNameF ELSE FileNameG,
                             !.pc = IF op = OpRRQ THEN "waitack" ELSE "waitdata",
                             !.st = IF op = OpRRQ THEN WrapReadLoop(content)
                                    ELSE WrapWriteLoop(content)]
          IN  /\ tr = [t \in Slots |-> IF t = 1 THEN r ELSE IdleTransfer]
              /\ upload = IF op = OpWRQ THEN content ELSE <<>>
              /\ sfs = IF op = OpRRQ
                       THEN (FileNameF :> [state |-> "file", data |-> content])
                       ELSE (FileNameG :> [state |-> "file", data |-> <<>>])
              /\ inbox = [a \in Addrs |->
                            IF a = PeerAddr(1)
                            THEN <<[from |-> SrvSock(1), data |-> first]>> ELSE <<>>]
              /\ ev = [a \in Addrs |->
                         IF a = SrvSock(1)
                         THEN Events("tx", PeerAddr(1), <<first>>) ELSE <<>>]

\* what the peer of such a transfer answers: ACK(k) to DATA(k); to ACK(k) the
\* block after k of its upload, numbered modulo 2^16
PeerAnswerWrap(data) ==
    LET o   == GetOpCode(data)
        blk == Uint16(Slice(data, 2, 4))
        i   == (blk + Wrap16 - WrapBase) % Wrap16
    IN  IF Len(data) < 4 \/ o.err THEN <<>>
        ELSE IF o.op = OpDATA THEN <<CreateAckPacket(blk)>>
        ELSE IF o.op = OpACK /\ i * BlockSize <= Len(upload)
        THEN <<createDataPacket((blk + 1) % Wrap16,
                   Slice(upload, i * BlockSize,
                         Min((i + 1) * BlockSize, Len(upload))))>>
        ELSE <<>>

PeerReplyWrap(p) ==
    /\ inbox[PeerAddr(p)] # <<>>
    /\ \E me \in {PeerAddr(p)} :
       \E dg \in {Head(inbox[me])} :
       \E out \in {PeerAnswerWrap(dg.data)} :
           /\ inbox' = Deliver([inbox EXCEPT ![me] = Tail(@)], me, dg.from, out)
           /\ ev' = [ev EXCEPT ![me] = @ \o Events("rx", dg.from, <<dg.data>>)
                                         \o Events("tx", dg.from, out)]
    /\ UNCHANGED <<tr, sfs, todo, upload, ninj, cl, cfs, dec>>

NextWrap ==
    \/ \E t \in Slots : ReadFileLoop(t)
    \/ \E t \in Slots : WriteFileLoop(t)
    \/ \E p \in Peers : PeerReplyWrap(p)

SpecWrap == InitWrap /\ [][NextWrap]_vars

\* the block number that follows k
AfterBlock(k) == IF k = 65535 THEN 0 ELSE k + 1

\* the packets of sequence es are numbered one after the other
Consecutive(es) ==
    \A i \in 1..(Len(es) - 1) : Block(es[i + 1].data) = AfterBlock(Block(es[i].data))

\* C28: block numbers are 16 bits wide and the number after 65535 is 0; a
\* transfer that is past block 65534 goes on over the wrap, the sender numbering
\* its DATA packets and the receiver its ACKs ..., 65535, 0, 1, ..., and ends
\* without error with the whole file sent or stored.
C28_BlockNumberWrap ==
    \A t \in Slots :
        tr[t].pc # "idle" =>
            LET a == SrvSock(t)
                f == FsLookup(sfs, tr[t].filename).data
            IN  /\ SentOp(a, OpERROR) = <<>>
                /\ tr[t].st.tid \in 0..65535
                /\ Consecutive(SentOp(a, OpDATA))
                /\ Consecutive(SentOp(a, OpACK))
                /\ tr[t].pc = "done" =>
                      /\ tr[t].ret = "nil"
                      /\ tr[t].op = OpRRQ =>
                            Payloads(SentOp(a, OpDATA)) = Slice(f, WrapKept - BlockSize, Len(f))
                      /\ tr[t].op = OpWRQ => f = upload
                /\ ~ENABLED NextWrap => tr[t].pc = "done"

\* a read and a write that went over the wrap: block 1 was sent, or
\* acknowledged, after blocks 65535 and 0, and the transfer has ended
C28_Witness ==
    \E t \in Slots :
        /\ tr[t].pc = "done"
        /\ tr[t].ret = "nil"
        /\ \E i, j, k \in 1..Len(ev[SrvSock(t)]) :
              /\ i < j /\ j < k
              /\ ev[SrvSock(t)][i].k = "tx" /\ Block(ev[SrvSock(t)][i].data) = 65535
              /\ ev[SrvSock(t)][j].k = "tx" /\ Block(ev[SrvSock(t)][j].data) = 0
              /\ ev[SrvSock(t)][k].k = "tx" /\ Block(ev[SrvSock(t)][k].data) = 1

\* positions in the listener's log where a datagram was received; what
\* handleHandshake returned for it is logged right after
Heard == {j \in 1..Len(ev[Rendezvous]) : ev[Rendezvous][j].k = "rx"}

\* C29: a datagram of which the listener reads MaxPacketSize (1024) bytes is
\* rejected before it is decoded, whatever it holds: handleHandshake returns an
\* error and launches no handler.  A datagram of fewer bytes goes to the
\* decoder: it is never rejected for its size, and it is rejected as
\* unparsable exactly when ParseRequestPacket fails on the buffer.
C29_OversizeRequest ==
    \A j \in Heard :
        LET d   == ev[Rendezvous][j].data
            ret == ev[Rendezvous][j + 1]
        IN  /\ ret.k = "ret"
            /\ Len(d) >= 1024 => (ret.err = "too big" /\ ret.go = 0)
            /\ Len(d) < 1024 =>
                  /\ ret.err # "too big"
                  /\ ret.err = "parse" <=> ParseRequestPacket(Copy(Zeros(1024), d)).err
                  /\ ret.err = "" => ret.go \in Slots

\* a well-formed WRQ in a datagram of exactly 1024 bytes was rejected
C29_Witness ==
    \E j \in Heard :
        /\ Len(ev[Rendezvous][j].data) = 1024
        /\ ~ParseRequestPacket(ev[Rendezvous][j].data).err
        /\ ParseRequestPacket(ev[Rendezvous][j].data).op = OpWRQ
        /\ ev[Rendezvous][j + 1].err = "too big"
        /\ Cardinality(Launched) = 1

\* C30: for every code c in 0..65535 and every message m without a 0 byte,
\* CreateErrorPacket(c, m) is the 5 + len(m) bytes 0, 5, c div 256, c mod 256,
\* m, 0; code 2 with "Hello" gives 0,5,0,2,72,101,108,108,111,0.
C30_ErrorPacketLayout ==
    dec.fn = "CreateErrorPacket" =>
        LET c == dec.in.code
            m == dec.in.message
        IN  /\ dec.out = <<0, 5, c \div 256, c % 256>> \o m \o <<0>>
            /\ Len(dec.out) = 5 + Len(m)
            /\ (c = 2 /\ m = <<72, 101, 108, 108, 111>>) =>
                  dec.out = <<0, 5, 0, 2, 72, 101, 108, 108, 111, 0>>

\* the packet of the repository's test: code 2, "Hello"
C30_Witness ==
    /\ dec.fn = "CreateErrorPacket"
    /\ dec.in.code = 2
    /\ dec.in.message = <<72, 101, 108, 108, 111>>

\* ------------------------------------------------- transfers with failing I/O
\* one peer, one transfer, and one thing going wrong: a foreign or malformed
\* datagram, a failing WriteTo or ReadFrom, a source that falls short
NextIO ==
    \/ handleHandshake
    \/ \E t \in Slots : handleReadRequestIO(t)
    \/ \E t \in Slots : ReadFileLoopIO(t)
    \/ \E t \in Slots : handleWriteRequest(t)
    \/ \E t \in Slots : WriteFileLoopIO(t)
    \/ \E p \in Peers : PeerRequest(p)
    \/ \E p \in Peers : PeerReply(p)
    \/ \E t \in Slots : PeerInject(t)

SpecIO == Init /\ [][NextIO]_vars

\* the same for a transfer past block 65534, whose bufio.Writer fills up
NextWrapIO ==
    \/ \E t \in Slots : ReadFileLoopIO(t)
    \/ \E t \in Slots : WriteFileLoopIO(t)
    \/ \E p \in Peers : PeerReplyWrap(p)
    \/ \E t \in Slots : PeerInject(t)

SpecWrapIO == InitWrap /\ [][NextWrapIO]_vars

\* C31: once the send loop has sent a DATA packet with fewer than 512 bytes
\* of payload and received its ACK, it has returned successfully and has sent
\* no further DATA packet, whatever sizes the reads of its source return.
C31_ShortBlockIsFinal ==
    \A t \in Slots :
        tr[t].op = OpRRQ =>
            LET a == SrvSock(t)
            IN  \A j \in DataIdx(a) :
                    (Len(ev[a][j].data) - 4 < BlockSize /\ (j + 1) \in MatchIdx(a)) =>
                        /\ tr[t].pc = "done"
                        /\ tr[t].ret = "nil"
                        /\ \A i \in DataIdx(a) : i <= j

\* how many packets with opcode op the events es sent or tried to send
RECURSIVE CountOp(_, _)
CountOp(es, op) ==
    IF es = <<>> THEN 0
    ELSE (IF Head(es).k \in {"tx", "txerr"} /\ IsOp(Head(es).data, op) THEN 1 ELSE 0)
            + CountOp(Tail(es), op)

\* the bytes the receive loop has handed to its sink: those in the file and
\* those still in the bufio.Writer
InSink(t) ==
    LET f  == FsLookup(sfs, tr[t].filename).data
        bw == tr[t].st.bw
    IN  SubSeq(f, 1, Min(bw.wpos, Len(f))) \o bw.wbuf

\* C32: the receive loop sends ACK(k) only after the payload of DATA(k) was
\* written to the sink without error: after every ACK(k), k > 0, sent or
\* tried, the sink ends with that payload.  When the write fails the loop
\* returns having taken DATA(k) as its last event: no ACK(k), no ERROR packet.
C32_WriteBeforeAck ==
    \A t \in Slots :
        (tr[t].op = OpWRQ /\ tr[t].pc \in {"waitdata", "done"}) =>
            LET a == SrvSock(t)
                n == Len(ev[a])
            IN  /\ (/\ n >= 2
                    /\ ev[a][n].k \in {"tx", "txerr"}
                    /\ IsOp(ev[a][n].data, OpACK)) =>
                       LET d == ev[a][n - 1].data
                           p == Slice(d, 4, Min(MaxPacketSize, Len(d)))
                           s == InSink(t)
                       IN  /\ ev[a][n - 1].k = "rx"
                           /\ Block(d) = Block(ev[a][n].data)
                           /\ Len(s) >= Len(p)
                           /\ SubSeq(s, Len(s) - Len(p) + 1, Len(s)) = p
                /\ tr[t].ret = "write" =>
                      /\ tr[t].pc = "done"
                      /\ ev[a][n].k = "rx"
                      /\ IsOp(ev[a][n].data, OpDATA)
                      /\ CountOp(ev[a], OpERROR) = 0
                      /\ \A j \in 1..n : ev[a][j].k \in {"tx", "txerr"} =>
                            Block(ev[a][j].data) # Block(ev[a][n].data)

\* the flush of the full buffer failed on the block after the wrap
C32_Witness ==
    \E t \in Slots :
        /\ tr[t].ret = "write"
        /\ Block(ev[SrvSock(t)][Len(ev[SrvSock(t)])].data) = 1

\* C33: when the WriteTo of a DATA packet fails, the send loop next writes an
\* ERROR packet to the remote address and returns; no DATA packet follows.
C33_SendFailureEmitsError ==
    \A t \in Slots :
        tr[t].op = OpRRQ =>
            LET a == SrvSock(t)
            IN  \A j \in 1..Len(ev[a]) :
                    (ev[a][j].k = "txerr" /\ IsOp(ev[a][j].data, OpDATA)) =>
                        /\ tr[t].pc = "done"
                        /\ j < Len(ev[a])
                        /\ ev[a][j + 1].k \in {"tx", "txerr"}
                        /\ IsOp(ev[a][j + 1].data, OpERROR)
                        /\ ev[a][j + 1].peer = tr[t].remote
                        /\ \A i \in (j + 1)..Len(ev[a]) : ~IsOp(ev[a][i].data, OpDATA)

\* C34: when the ReadFrom after a DATA packet fails, or returns a datagram
\* that is not 4 bytes long, or one that is no ACK packet, the send loop
\* returns and nothing is sent after that receipt: no ERROR, no DATA.
C34_AckReceiveFailure ==
    \A t \in Slots :
        tr[t].op = OpRRQ =>
            LET a == SrvSock(t)
            IN  \A j \in 1..Len(ev[a]) :
                    (\/ ev[a][j].k = "rxerr"
                     \/ /\ ev[a][j].k = "rx"
                        /\ \/ Len(ev[a][j].data) # 4
                           \/ SubSeq(ev[a][j].data, 1, 2) # <<0, OpACK>>) =>
                        /\ tr[t].pc = "done"
                        /\ j = Len(ev[a])

\* the receive at position j of a's log took a packet whose opcode is not DATA
NonData(a, j) ==
    /\ ev[a][j].k = "rx"
    /\ Len(ev[a][j].data) >= 2
    /\ Uint16(ev[a][j].data) # OpDATA

\* C35: when the receive loop takes a packet whose opcode is not DATA (an
\* ERROR packet of the peer, an unknown opcode), it returns with an error:
\* that receipt is the last event of the transfer (no ACK, no ERROR packet)
\* and the sink holds the payloads accepted before it and nothing else.
C35_NonDataEndsReceiveLoop ==
    \A t \in Slots :
        tr[t].op = OpWRQ =>
            LET a == SrvSock(t)
            IN  \A j \in 1..Len(ev[a]) :
                    NonData(a, j) =>
                        /\ tr[t].pc = "done"
                        /\ tr[t].ret \in {"opcode", "not data"}
                        /\ j = Len(ev[a])
                        /\ FsLookup(sfs, tr[t].filename).data = Written(a, j - 1)

\* an ERROR packet of the peer arrived after a block had been accepted
C35_Witness ==
    \E t \in Slots :
        /\ tr[t].op = OpWRQ
        /\ ev[SrvSock(t)] # <<>>
        /\ NonData(SrvSock(t), Len(ev[SrvSock(t)]))
        /\ IsOp(ev[SrvSock(t)][Len(ev[SrvSock(t)])].data, OpERROR)
        /\ AckedIdx(SrvSock(t)) # {}
        /\ Len(FsLookup(sfs, tr[t].filename).data) >= BlockSize

\* the positions of a's log at which an ERROR packet was written
ErrorIdx(a) ==
    {j \in 1..Len(ev[a]) : ev[a][j].k \in {"tx", "txerr"} /\ IsOp(ev[a][j].data, OpERROR)}

\* C36: a transfer writes at most one ERROR packet; the ERROR packet is the
\* last event of its socket (nothing is sent and nothing is received after
\* it) and the handler has returned.
C36_OneShotError ==
    \A t \in Slots :
        LET a == SrvSock(t)
        IN  /\ Cardinality(ErrorIdx(a)) <= 1
            /\ \A j \in ErrorIdx(a) :
                  /\ j = Len(ev[a])
                  /\ tr[t].pc = "done"
                  /\ tr[t].ret # "nil"

\* an ERROR packet ended a write transfer that had accepted a block
C36_Witness ==
    \E t \in Slots :
        /\ tr[t].op = OpWRQ
        /\ ErrorIdx(SrvSock(t)) # {}
        /\ AckedIdx(SrvSock(t)) # {}
        /\ tr[t].ret = "tid"

\* ------------------------------------------------- one request, two modes
\* the accepted modes, in several spellings
AcceptedModes == {StrNetascii, StrOctet, StrMail, StrOctetUpper, StrNetAsciiMixed}

\* no transfer is under way and no datagram is on its way
Quiet ==
    /\ \A t \in Slots : tr[t].pc \in {"idle", "done"}
    /\ \A a \in Addrs : inbox[a] = <<>>

\* Peer 1 sends a request in an accepted mode; peer 2, once the transfer of
\* peer 1 is over, sends the same request in an accepted mode of its choice.
PeerRequestMode(p) ==
    /\ p \in todo
    /\ p # 1 => (1 \notin todo /\ Quiet)
    /\ \E op \in {OpRRQ, OpWRQ}, name \in {FileNameF, FileNameG, FileNameD},
          m1 \in AcceptedModes, m2 \in AcceptedModes :
          /\ op = OpWRQ => name # FileNameF
          /\ p # 1 => Requested(1)[1].data = ToBytes(op, name, m1)
          /\ inbox' = Deliver(inbox, PeerAddr(p), Rendezvous, <<ToBytes(op, name, m2)>>)
          /\ ev' = [ev EXCEPT ![PeerAddr(p)] =
                        @ \o Events("tx", Rendezvous, <<ToBytes(op, name, m2)>>)]
    /\ todo' = todo \ {p}
    /\ UNCHANGED <<tr, sfs, upload, ninj, cl, cfs, dec>>

NextModes ==
    \/ handleHandshake
    \/ \E t \in Slots : handleReadRequest(t)
    \/ \E t \in Slots : ReadFileLoop(t)
    \/ \E t \in Slots : handleWriteRequest(t)
    \/ \E t \in Slots : WriteFileLoop(t)
    \/ \E p \in Peers : PeerRequestMode(p)
    \/ \E p \in Peers : PeerReply(p)

SpecModes == InitTwo /\ [][NextModes]_vars

\* the packets of a's log without the addresses
Packets(a) == [j \in 1..Len(ev[a]) |-> <<ev[a][j].k, ev[a][j].data>>]

\* C37: two requests that differ only in the accepted mode string, for the
\* same file and with the same behaviour of the peer, are both served, and
\* their transfers send and receive the same packets and return the same
\* result; a completed upload leaves the peer's bytes in the sink and a
\* completed download sends the file's bytes, unchanged, in every mode.
C37_ModeIndependence ==
    /\ \A j \in 1..Len(ev[Rendezvous]) :
          ev[Rendezvous][j].k = "ret" => ev[Rendezvous][j].err = ""
    /\ \A t \in Slots, u \in Slots :
          (tr[t].pc = "done" /\ tr[u].pc = "done") =>
              /\ tr[t].op = tr[u].op
              /\ tr[t].filename = tr[u].filename
              /\ tr[t].ret = tr[u].ret
              /\ Packets(SrvSock(t)) = Packets(SrvSock(u))
    /\ \A t \in Slots :
          (tr[t].pc = "done" /\ tr[t].ret = "nil") =>
              /\ (tr[t].op = OpWRQ /\ Quiet) =>
                    FsLookup(sfs, tr[t].filename).data = upload
              /\ tr[t].op = OpRRQ =>
                    Payloads(SentOp(SrvSock(t), OpDATA))
                        = FsLookup(sfs, tr[t].filename).data

\* an upload of more than one block was made in mode netascii and again in
\* mode OCTET
C37_Witness ==
    /\ \A t \in Slots : tr[t].pc = "done" /\ tr[t].ret = "nil" /\ tr[t].op = OpWRQ
    /\ Quiet
    /\ Len(upload) > BlockSize
    /\ Requested(1)[1].data = ToBytes(OpWRQ, FileNameG, StrNetascii)
    /\ Requested(2)[1].data = ToBytes(OpWRQ, FileNameG, StrOctetUpper)

\* the block numbers of the DATA packets the receive loop accepted, in the
\* order of their arrival
RECURSIVE AcceptedBlocks(_, _)
AcceptedBlocks(a, j) ==
    IF j = 0 THEN <<>>
    ELSE AcceptedBlocks(a, j - 1)
            \o (IF j \in AckedIdx(a) THEN <<Block(ev[a][j].data)>> ELSE <<>>)

\* C38: in every state of a write transfer the bytes handed to the sink are
\* the payloads of the accepted DATA packets, concatenated in the order of
\* their arrival, and the accepted DATA packets are the blocks 1, 2, ..., k in
\* this order: no block is written twice, skipped or out of order, whatever
\* datagrams arrive.
C38_SinkIntegrity ==
    \A t \in Slots :
        (tr[t].op = OpWRQ /\ tr[t].pc \in {"waitdata", "done"} /\ tr[t].fh # "none") =>
            LET a  == SrvSock(t)
                bs == AcceptedBlocks(a, Len(ev[a]))
            IN  /\ InSink(t) = Written(a, Len(ev[a]))
                /\ \A i \in 1..Len(bs) : bs[i] = i
                /\ tr[t].pc = "waitdata" => tr[t].st.tid = Len(bs) + 1

\* two blocks are in the sink, a datagram of a misbehaving sender has been
\* dealt with, and the transfer waits for the third block
C38_Witness ==
    \E t \in Slots :
        /\ tr[t].op = OpWRQ
        /\ tr[t].pc = "waitdata"
        /\ tr[t].st.tid = 3
        /\ Len(InSink(t)) = 2 * BlockSize
        /\ ninj = MaxInject

\* ------------------------------------ short datagrams in the receive loop
\* the datagrams of 0 to 3 bytes: every one over a few byte values, and the
\* header of a DATA packet cut after each high byte of the block number
ShortBytes == {0, 1, 2, 3, 5, 255}

ShortDatagrams ==
    {<<>>}
    \cup {<<a>> : a \in ShortBytes}
    \cup {<<a, b>> : a \in ShortBytes, b \in ShortBytes}
    \cup {<<a, b, c>> : a \in ShortBytes, b \in ShortBytes, c \in ShortBytes}
    \cup {<<0, OpDATA, c>> : c \in 0..255}

\* the blocks after whose acceptance the short datagram arrives; NoBlock: it
\* is the first datagram of the transfer
NoBlock == 0 - 1

PrevBlocks == {NoBlock, 1, 2, 255, 256, 511, Wrap16 - 2, Wrap16 - 1, 0}

\* the loop variables of WriteFileLoop waiting for its next datagram after it
\* accepted a full DATA packet of block prev, or at its first ReadFrom
LoopAfter(prev) ==
    IF prev = NoBlock THEN WriteFileLoopEnter
    ELSE WriteFileLoopRecv(<<>>, [WriteFileLoopEnter EXCEPT !.tid = prev],
                           createDataPacket(prev, Zeros(BlockSize))).st

\* one pass of WriteFileLoop on a short datagram
CallWriteFileLoop ==
    /\ dec.fn = ""
    /\ \E prev \in PrevBlocks, data \in ShortDatagrams :
       \E st \in {LoopAfter(prev)} :
       \E res \in {WriteFileLoopRecv(<<>>, st, data)} :
          dec' = Call("WriteFileLoop", [prev |-> prev, data |-> data, bw |-> st.bw],
                      [ret |-> res.ret, out |-> res.out, content |-> res.content,
                       bw |-> res.st.bw])
    /\ UNCHANGED <<inbox, tr, sfs, ev, todo, upload, ninj, cl, cfs>>

NextShort == CallWriteFileLoop

SpecShort == InitCodec /\ [][NextShort]_vars

\* C39: a datagram of 0 to 3 bytes, arriving first or after any accepted
\* block, never reaches the slice packet[4:n]: the loop returns on the opcode
\* test or on the block-number test (which answers with an ERROR packet),
\* nothing is written to the sink and no ACK is sent.
C39_ShortDatagramEndsReceiveLoop ==
    dec.fn = "WriteFileLoop" =>
        /\ dec.out.ret \in {"opcode", "not data", "tid"}
        /\ dec.out.content = <<>>
        /\ dec.out.bw = dec.in.bw
        /\ dec.out.out = IF dec.out.ret = "tid" THEN <<SendError(5, MsgUnknownTid)>>
                         ELSE <<>>

\* after block 65535 the 3 bytes 0, 3, 0 arrive: with the low byte left in the
\* buffer they read as DATA(255), not the block 0 the loop waits for
C39_Witness ==
    /\ dec.fn = "WriteFileLoop"
    /\ dec.in.prev = Wrap16 - 1
    /\ dec.in.data = <<0, OpDATA, 0>>
    /\ dec.out.ret = "tid"

\* ------------------------------------- the client and a misbehaving server
\* a datagram of a misbehaving server arrives at the client's socket while
\* the client waits for an ACK
ClientInject ==
    /\ ninj < MaxInject
    /\ cl.pc = "waitack"
    /\ inbox[ClientSock] = <<>>
    /\ \E data \in Injections(cl.st.tid) :
          inbox' = [inbox EXCEPT ![ClientSock] =
                        Append(@, [from |-> cl.remote, data |-> data])]
    /\ ninj' = ninj + 1
    /\ UNCHANGED <<tr, sfs, ev, todo, upload, cl, cfs, dec>>

NextClientInject ==
    \/ handleHandshake
    \/ \E t \in Slots : handleReadRequest(t)
    \/ \E t \in Slots : ReadFileLoop(t)
    \/ \E t \in Slots : handleWriteRequest(t)
    \/ \E t \in Slots : WriteFileLoop(t)
    \/ handlePut
    \/ handlePutAck
    \/ handlePutLoop
    \/ handleGet
    \/ handleGetLoop
    \/ \E p \in Peers : PeerRequest(p)
    \/ \E p \in Peers : PeerReply(p)
    \/ ClientInject

SpecClientInject == InitClient /\ [][NextClientInject]_vars

\* C40: handlePut returns nil only when ReadFileLoop returned nil, every block
\* sent and acknowledged; when the exchange of DATA and ACK fails it returns
\* an error.
C40_PutReportsFailure ==
    (cl.mode = "put" /\ cl.pc = "done") =>
        (cl.ret = "nil" <=> cl.loop = "nil")

====
